---- MODULE Spec2Model ----
(***************************************************************************)
(* a1e: an Apple 1 emulator.  A MOS 6502 interpreter (a1e/cpu) running     *)
(* against a 64 KiB memory fabric (a1e/memory.py) with I/O hooks for the   *)
(* keyboard (a1e/keyboard.py) and the video sink (a1e/video.py).           *)
(*                                                                         *)
(* Python integers are unbounded: the model masks exactly where the code   *)
(* masks (x & 0xFF is x % 256, x & 0xFFFF is x % 65536) and nowhere else.   *)
(***************************************************************************)
EXTENDS Integers, Sequences, FiniteSets, TLC

VARIABLES
    A, X, Y, SP, P, PC,          \* CPU6502 registers
    data,                        \* Memory.data, the nonzero bytes of the bytearray
    _io_handlers,                \* Memory._io_handlers: addr -> <<read, write>>
    _rom_start,                  \* Memory._rom_start
    _key_pressed, _kbdcr,        \* Keyboard latch and control register
    stdin,                       \* host bytes waiting on sys.stdin
    _col,                        \* Video column counter
    stdout,                      \* what Video wrote to sys.stdout
    io_log,                      \* history: the hook calls made, in order
    last,                        \* history: the last call made and what it returned
    prev,                        \* history: the call before the last one
    written,                     \* history: the value the caller last passed to
                                 \* Memory.write for an address, until map_io is
                                 \* called on that address
    steps, resets, calls,        \* history: how many step(), reset() and Memory
                                 \* calls were made
    at,                          \* the statement A1E.run() executes next
    cycles, emu_time, now,       \* locals of A1E.run()
    clock,                       \* host: what time.perf_counter() returns
    slept,                       \* host: the time.sleep() calls of the last frame
    tty,                         \* host: the mode of the terminal
    _old_settings,               \* Keyboard._old_settings
    raised,                      \* the exception that ended the try block
    frames,                      \* history: how many frames were completed
    status                       \* host: the exit status of the process, -1
                                 \* while it runs

vars == <<A, X, Y, SP, P, PC, data, _io_handlers, _rom_start, _key_pressed,
          _kbdcr, stdin, _col, stdout, io_log, last, prev, written, steps,
          resets, calls, at, cycles, emu_time, now, clock, slept, tty,
          _old_settings, raised, frames, status>>

(* what A1E.run() and the host keep besides the machine *)
runVars == <<at, cycles, emu_time, now, clock, slept, tty, _old_settings,
             raised, frames, status>>

----------------------------------------------------------------------------
(* constants.py *)
RAM_SIZE == \h10000
KBD_DATA == \hD010
KBD_CTRL == \hD011
VIDEO_ADDR == \hD012
SCREEN_COLS == 40
CPU_HZ == 1000000
FPS == 60
CYCLES_PER_FRAME == CPU_HZ \div FPS

(* opcodes.py: flags of cpu.P *)
FLAG_C == 1
FLAG_Z == 2
FLAG_I == 4
FLAG_D == 8
FLAG_B == 16
FLAG_U == 32
FLAG_V == 64
FLAG_N == 128

----------------------------------------------------------------------------
(* Python's integer operators on non-negative integers of any width. *)
RECURSIVE BitAnd(_, _)
BitAnd(a, b) ==
    IF a = 0 \/ b = 0 THEN 0
    ELSE ((a % 2) * (b % 2)) + 2 * BitAnd(a \div 2, b \div 2)

RECURSIVE BitOr(_, _)
BitOr(a, b) ==
    IF a = 0 THEN b
    ELSE IF b = 0 THEN a
    ELSE (IF a % 2 = 1 \/ b % 2 = 1 THEN 1 ELSE 0) + 2 * BitOr(a \div 2, b \div 2)

RECURSIVE BitXor(_, _)
BitXor(a, b) ==
    IF a = 0 THEN b
    ELSE IF b = 0 THEN a
    ELSE ((a + b) % 2) + 2 * BitXor(a \div 2, b \div 2)

(* a & ~b *)
RECURSIVE BitClear(_, _)
BitClear(a, b) ==
    IF a = 0 THEN 0
    ELSE IF b = 0 THEN a
    ELSE (IF b % 2 = 1 THEN 0 ELSE a % 2) + 2 * BitClear(a \div 2, b \div 2)

----------------------------------------------------------------------------
(* Memory.data is a bytearray of RAM_SIZE zero bytes; the model keeps the   *)
(* nonzero ones.  Index maps a Python index (negative counts from the end). *)
Index(i) == IF i < 0 THEN i + RAM_SIZE ELSE i

Peek(d, i) == IF Index(i) \in DOMAIN d THEN d[Index(i)] ELSE 0

Poke(d, i, v) ==
    IF v = 0
    THEN [a \in (DOMAIN d) \ {Index(i)} |-> d[a]]
    ELSE [a \in (DOMAIN d) \cup {Index(i)} |-> IF a = Index(i) THEN v ELSE d[a]]

(* A local variable: K with its parameter bound to the value of e (the     *)
(* statements K that follow an assignment x = e).                           *)
With(e, K(_)) == K(e)

(* The objects a handler can touch, as one record: the CPU6502 fields, the  *)
(* memory array, the keyboard and video fields, the host's standard output, *)
(* the hook calls made, the value the call returns and the exception it     *)
(* raises (NoExc when none).                                                *)
NoExc == [type |-> "", a |-> 0, b |-> 0]

Machine ==
    [A |-> A, X |-> X, Y |-> Y, SP |-> SP, P |-> P, PC |-> PC,
     data |-> data, key_pressed |-> _key_pressed, kbdcr |-> _kbdcr,
     col |-> _col, stdout |-> stdout, io_log |-> io_log,
     ret |-> 0, exc |-> NoExc]

Ret(cpu, n) == [cpu EXCEPT !.ret = n]

Logged(cpu, name, arg) == [cpu EXCEPT !.io_log = Append(@, <<name, arg>>)]

(* write_char wrapping one column late *)
write_char_wide(cpu, val) ==
    With(Logged(cpu, "write_char", val), LAMBDA c0 :
    LET c == val % \h80
    IN  IF val = 0 THEN c0
        ELSE IF c \in {\h0D, \h0A}
        THEN [c0 EXCEPT !.stdout = Append(@, 10), !.col = 0]
        ELSE LET c1 == [c0 EXCEPT !.stdout = Append(@, c), !.col = @ + 1]
             IN  IF c1.col > SCREEN_COLS
                 THEN [c1 EXCEPT !.stdout = Append(@, 10), !.col = 0]
                 ELSE c1)

(* write_char taking only LF for a newline *)
write_char_lf(cpu, val) ==
    With(Logged(cpu, "write_char", val), LAMBDA c0 :
    LET c == val % \h80
    IN  IF val = 0 THEN c0
        ELSE IF c = \h0A
        THEN [c0 EXCEPT !.stdout = Append(@, 10), !.col = 0]
        ELSE LET c1 == [c0 EXCEPT !.stdout = Append(@, c), !.col = @ + 1]
             IN  IF c1.col >= SCREEN_COLS
                 THEN [c1 EXCEPT !.stdout = Append(@, 10), !.col = 0]
                 ELSE c1)

----------------------------------------------------------------------------
(* video.py: Video.write_char, the writer registered for VIDEO_ADDR.  The   *)
(* host's stdout is the sequence of character codes written; 10 is '\n'.    *)
write_char(cpu, val) ==
    With(Logged(cpu, "write_char", val), LAMBDA c0 :
    LET c == val % \h80
    IN  IF val = 0 THEN c0
        ELSE IF c \in {\h0D, \h0A}
        THEN [c0 EXCEPT !.stdout = Append(@, 10), !.col = 0]
        ELSE LET c1 == [c0 EXCEPT !.stdout = Append(@, c), !.col = @ + 1]
             IN  IF c1.col >= SCREEN_COLS
                 THEN [c1 EXCEPT !.stdout = Append(@, 10), !.col = 0]
                 ELSE c1)

(* read_char returning the latched code as it is *)
read_char_bare(cpu) ==
    [cpu |-> [Logged(cpu, "read_char", 0) EXCEPT
                  !.key_pressed = 0, !.kbdcr = BitAnd(@, \h7F)],
     val |-> cpu.key_pressed]

(* keyboard.py: Keyboard.read_char, the reader registered for KBD_DATA. *)
read_char(cpu) ==
    LET val == cpu.key_pressed IN
    With([Logged(cpu, "read_char", 0) EXCEPT
                  !.key_pressed = 0, !.kbdcr = BitAnd(@, \h7F)], LAMBDA c1 :
    [cpu |-> c1, val |-> BitOr(val, \h80)])

(* keyboard.py: Keyboard.read_status, the reader registered for KBD_CTRL. *)
read_status(cpu) ==
    [cpu |-> Logged(cpu, "read_status", 0), val |-> cpu.kbdcr]

(* The callables the program registers as hooks; "None" is Python's None. *)
Readers == {"None", "read_char", "read_status"}
Writers == {"None", "write_char"}

CallReader(name, cpu) ==
    IF name = "read_char" THEN read_char(cpu) ELSE read_status(cpu)

CallWriter(name, cpu, val) == write_char(cpu, val)

----------------------------------------------------------------------------
(* memory.py *)

(* Memory.reset_vector *)
reset_vector(cpu) ==
    With(Poke(cpu.data, \hFFFC, _rom_start % \h100), LAMBDA d1 :
    With(Poke(d1, \hFFFD, (_rom_start \div \h100) % \h100), LAMBDA d2 :
    [cpu EXCEPT !.data = d2]))

(* Memory.map_io: the new handler table *)
map_io(handlers, addr, rd, wr) ==
    [a \in (DOMAIN handlers) \cup {addr} |->
        IF a = addr THEN <<rd, wr>> ELSE handlers[a]]

(* Memory.load_data, for start >= 0; bytes is a sequence of byte values.    *)
(* The slice assignment data[start:start + dlen] = bytes.                   *)
SliceAssign(d, bytes, start) ==
    LET span == start..(start + Len(bytes) - 1)
        keep == {a \in DOMAIN d : a \notin span}
        new == {a \in span : bytes[a - start + 1] # 0}
    IN  [a \in keep \cup new |-> IF a \in span THEN bytes[a - start + 1] ELSE d[a]]

(* load_data going through Memory.write for every byte *)
load_data_by_write(cpu, bytes, start) ==
    IF Len(bytes) > RAM_SIZE - start
    THEN [cpu EXCEPT !.exc = [type |-> "Exception: Data too large", a |-> 0, b |-> 0]]
    ELSE IF bytes = <<>> THEN cpu
    ELSE [cpu EXCEPT !.data =
             [a \in DOMAIN @ \cup {start + i - 1 : i \in 1..Len(bytes)} |->
                 IF a \in start..(start + Len(bytes) - 1) /\ a < _rom_start
                     /\ (a \notin DOMAIN _io_handlers \/ _io_handlers[a][2] = "None")
                 THEN bytes[a - start + 1]
                 ELSE Peek(@, a)]]

load_data(cpu, bytes, start) ==
    LET dlen == Len(bytes)
    IN  IF dlen > RAM_SIZE - start
        THEN [cpu EXCEPT !.exc = [type |-> "Exception: Data too large", a |-> 0, b |-> 0]]
        ELSE [cpu EXCEPT !.data = SliceAssign(@, bytes, start)]

(* Memory.read: the machine after the call and the byte returned *)
read(cpu, addr0) ==
    LET addr == addr0 % \h10000
    IN  IF addr \in DOMAIN _io_handlers /\ _io_handlers[addr][1] # "None"
        THEN CallReader(_io_handlers[addr][1], cpu)
        ELSE [cpu |-> cpu, val |-> Peek(cpu.data, addr)]

(* Variants of Memory.write that the properties of the memory fabric must  *)
(* tell from it: one that stores the value unmasked, one that consults the  *)
(* writer hook before the ROM window, one without a ROM window.             *)
write_unmasked(cpu, addr0, val0) ==
    LET addr == addr0 % \h10000
    IN  IF _rom_start <= addr /\ addr <= \hFFFF THEN cpu
        ELSE IF addr \in DOMAIN _io_handlers /\ _io_handlers[addr][2] # "None"
        THEN CallWriter(_io_handlers[addr][2], cpu, val0)
        ELSE [cpu EXCEPT !.data = Poke(@, addr, val0)]

write_hook_first(cpu, addr0, val0) ==
    LET addr == addr0 % \h10000
        val == val0 % \h100
    IN  IF addr \in DOMAIN _io_handlers /\ _io_handlers[addr][2] # "None"
        THEN CallWriter(_io_handlers[addr][2], cpu, val)
        ELSE IF _rom_start <= addr /\ addr <= \hFFFF THEN cpu
        ELSE [cpu EXCEPT !.data = Poke(@, addr, val)]

write_no_rom(cpu, addr0, val0) ==
    LET addr == addr0 % \h10000
        val == val0 % \h100
    IN  IF addr \in DOMAIN _io_handlers /\ _io_handlers[addr][2] # "None"
        THEN CallWriter(_io_handlers[addr][2], cpu, val)
        ELSE [cpu EXCEPT !.data = Poke(@, addr, val)]

(* a write that stores the byte in the array after the hook was called *)
write_through(cpu, addr0, val0) ==
    LET addr == addr0 % \h10000
        val == val0 % \h100
    IN  IF _rom_start <= addr /\ addr <= \hFFFF THEN cpu
        ELSE IF addr \in DOMAIN _io_handlers /\ _io_handlers[addr][2] # "None"
        THEN With(CallWriter(_io_handlers[addr][2], cpu, val), LAMBDA c1 :
             [c1 EXCEPT !.data = Poke(@, addr, val)])
        ELSE [cpu EXCEPT !.data = Poke(@, addr, val)]

(* Memory.write *)
write(cpu, addr0, val0) ==
    LET addr == addr0 % \h10000
        val == val0 % \h100
    IN  IF _rom_start <= addr /\ addr <= \hFFFF THEN cpu
        ELSE IF addr \in DOMAIN _io_handlers /\ _io_handlers[addr][2] # "None"
        THEN CallWriter(_io_handlers[addr][2], cpu, val)
        ELSE [cpu EXCEPT !.data = Poke(@, addr, val)]

----------------------------------------------------------------------------
(* cpu/opcodes.py: helpers *)

(* a _set_zn that builds P from Z and N alone *)
_set_zn_alone(cpu, val0) ==
    LET val == val0 % \h100
    IN  [cpu EXCEPT !.P = BitOr(FLAG_U, (IF val = 0 THEN FLAG_Z ELSE 0)
                                          + (IF val >= \h80 THEN FLAG_N ELSE 0))]

_set_zn(cpu, val0) ==
    LET val == val0 % \h100
        p1 == BitClear(cpu.P, BitOr(FLAG_Z, FLAG_N))
        p2 == IF val = 0 THEN BitOr(p1, FLAG_Z) ELSE p1
        p3 == IF BitAnd(val, \h80) # 0 THEN BitOr(p2, FLAG_N) ELSE p2
    IN  [cpu EXCEPT !.P = p3]

(* a comparison of pages that never finds a crossing *)
_page_crossed_never(addr1, addr2) == FALSE

_page_crossed(addr1, addr2) == BitAnd(addr1, \hFF00) # BitAnd(addr2, \hFF00)

(* a push that decrements SP before the write *)
_stack_push_predecrement(cpu, val) ==
    LET c1 == [cpu EXCEPT !.SP = (cpu.SP - 1) % \h100]
    IN  write(c1, \h100 + c1.SP, val % \h100)

_stack_push(cpu, val) ==
    With(write(cpu, \h100 + cpu.SP, val % \h100), LAMBDA c1 :
    [c1 EXCEPT !.SP = (cpu.SP - 1) % \h100])

_stack_pop(cpu) ==
    LET c1 == [cpu EXCEPT !.SP = (cpu.SP + 1) % \h100]
    IN  read(c1, \h100 + c1.SP)

(* a branch that takes its offset as an unsigned byte *)
_branch_common_unsigned(cpu, offset, condition) ==
    IF condition
    THEN LET old_pc == cpu.PC
             c1 == [cpu EXCEPT !.PC = (cpu.PC + offset) % \h10000]
         IN  Ret(c1, IF _page_crossed(old_pc, c1.PC) THEN 2 + 1 + 1 ELSE 2 + 1)
    ELSE Ret(cpu, 2)

_branch_common(cpu, offset, condition) ==
    IF condition
    THEN LET old_pc == cpu.PC
             off == IF BitAnd(offset, \h80) # 0 THEN offset - \h100 ELSE offset
             c1 == [cpu EXCEPT !.PC = (cpu.PC + off) % \h10000]
         IN  Ret(c1, IF _page_crossed(old_pc, c1.PC) THEN 2 + 1 + 1 ELSE 2 + 1)
    ELSE Ret(cpu, 2)

(* P with the bits of mask set when cond holds and clear otherwise:         *)
(* (P & ~mask) | (mask if cond else 0)                                      *)
WithFlag(p, mask, cond) == BitOr(BitClear(p, mask), IF cond THEN mask ELSE 0)

(* a comparison that sets C only when the register is greater *)
_cmp_helper_strict(cpu, reg_val, operand0) ==
    LET operand == operand0 % \h100
        result == (reg_val - operand) % \h200
        c1 == [cpu EXCEPT !.P = IF reg_val > operand
                                THEN BitOr(cpu.P, FLAG_C) ELSE BitClear(cpu.P, FLAG_C)]
    IN  [c1 EXCEPT !.P = BitOr(BitOr(BitClear(c1.P, BitOr(FLAG_Z, FLAG_N)),
                                     IF result % \h100 = 0 THEN FLAG_Z ELSE 0),
                               IF BitAnd(result, \h80) # 0 THEN FLAG_N ELSE 0)]

_cmp_helper(cpu, reg_val, operand0) ==
    LET operand == operand0 % \h100
        result == (reg_val - operand) % \h200
        c1 == [cpu EXCEPT !.P = WithFlag(cpu.P, FLAG_C, reg_val >= operand)]
    IN  _set_zn(c1, result % \h100)

_parse_operands_abs(operands) == BitOr(operands[2] * \h100, operands[1])

_parse_operands_abs_x(cpu, operands) ==
    LET base == _parse_operands_abs(operands)
        addr == (base + cpu.X) % \h10000
    IN  [addr |-> addr, extra |-> IF _page_crossed(base, addr) THEN 1 ELSE 0]

_parse_operands_abs_y(cpu, operands) ==
    LET base == _parse_operands_abs(operands)
        addr == (base + cpu.Y) % \h10000
    IN  [addr |-> addr, extra |-> IF _page_crossed(base, addr) THEN 1 ELSE 0]

_parse_operands_imm(operands) == operands[1]

_parse_operands_zp(operands) == operands[1] % \h100

(* zero page,X indexing that leaves page zero *)
_parse_operands_zp_x_nowrap(cpu, operands) == operands[1] + cpu.X

_parse_operands_zp_x(cpu, operands) == (operands[1] + cpu.X) % \h100

_parse_operands_zp_y(cpu, operands) == (operands[1] + cpu.Y) % \h100

(* the machine after the two pointer reads, and the address *)
_parse_operands_ind_x(cpu, operands) ==
    LET zp == (operands[1] + cpu.X) % \h100 IN
    With(read(cpu, zp), LAMBDA lo :
    With(read(lo.cpu, (zp + 1) % \h100), LAMBDA hi :
    [cpu |-> hi.cpu, addr |-> BitOr(hi.val * \h100, lo.val)]))

_parse_operands_ind_y(cpu, operands) ==
    LET zp == operands[1] % \h100 IN
    With(read(cpu, zp), LAMBDA lo :
    With(read(lo.cpu, (zp + 1) % \h100), LAMBDA hi :
    LET base == BitOr(hi.val * \h100, lo.val)
        addr == (base + hi.cpu.Y) % \h10000
    IN  [cpu |-> hi.cpu, addr |-> addr,
         extra |-> IF _page_crossed(base, addr) THEN 1 ELSE 0]))

----------------------------------------------------------------------------
(* cpu/opcodes.py: ALU helpers *)

(* (hi << 4) | (lo & 0x0F): hi << 4 has its low four bits clear, so the     *)
(* bitwise or is a sum, also when hi is negative (two's complement).        *)
Nibbles(hi, lo) == (hi * 16) + (lo % 16)

(* decimal addition that does not carry into the high digit *)
_adc_decimal_nocarry(cpu, a, m, carry_in) ==
    LET lo0 == (a % 16) + (m % 16) + carry_in
        hi1 == (a \div 16) + (m \div 16)
        lo == IF lo0 > 9 THEN lo0 - 10 ELSE lo0
        p1 == IF hi1 > 9 THEN BitOr(cpu.P, FLAG_C) ELSE BitClear(cpu.P, FLAG_C)
        hi == IF hi1 > 9 THEN hi1 - 10 ELSE hi1
        a1 == ((hi * 16) + (lo % 16)) % \h100
    IN  [cpu EXCEPT !.A = a1,
                    !.P = BitOr(BitOr(BitClear(p1, BitOr(BitOr(FLAG_N, FLAG_Z), FLAG_V)),
                                      IF BitAnd(a1, \h80) # 0 THEN FLAG_N ELSE 0),
                                IF a1 = 0 THEN FLAG_Z ELSE 0)]

(* decimal subtraction that sets C on a borrow *)
_sbc_decimal_borrow(cpu, a, m, carry_in) ==
    LET lo0 == (a % 16) - (m % 16) - (1 - carry_in)
        hi0 == (a \div 16) - (m \div 16)
        lo == IF lo0 < 0 THEN lo0 + 10 ELSE lo0
        hi1 == IF lo0 < 0 THEN hi0 - 1 ELSE hi0
        p1 == IF hi1 < 0 THEN BitOr(cpu.P, FLAG_C) ELSE BitClear(cpu.P, FLAG_C)
        hi == IF hi1 < 0 THEN hi1 + 10 ELSE hi1
        a1 == ((hi * 16) + (lo % 16)) % \h100
    IN  [cpu EXCEPT !.A = a1,
                    !.P = BitOr(BitOr(BitClear(p1, BitOr(BitOr(FLAG_N, FLAG_Z), FLAG_V)),
                                      IF BitAnd(a1, \h80) # 0 THEN FLAG_N ELSE 0),
                                IF a1 = 0 THEN FLAG_Z ELSE 0)]

(* binary addition with V copied from the carry *)
_adc_binary_vc(cpu, a, m, carry_in) ==
    LET result == a + m + carry_in
        a1 == result % \h100
        p1 == BitOr(BitClear(cpu.P, BitOr(FLAG_C, FLAG_V)),
                    IF result > \hFF THEN BitOr(FLAG_C, FLAG_V) ELSE 0)
    IN  _set_zn([cpu EXCEPT !.A = a1, !.P = p1], a1)

(* binary subtraction that adds the operand as it is *)
_sbc_binary_plain(cpu, a, m, carry_in) ==
    LET result == a + m + carry_in
        a1 == result % \h100
        p1 == BitOr(BitClear(cpu.P, BitOr(FLAG_C, FLAG_V)),
                    IF result > \hFF THEN FLAG_C ELSE 0)
    IN  _set_zn([cpu EXCEPT !.A = a1, !.P = p1], a1)

(* the P register after the final assignment of _adc_decimal/_sbc_decimal *)
DecimalNZV(p, a) ==
    BitOr(BitOr(BitClear(p, BitOr(BitOr(FLAG_N, FLAG_Z), FLAG_V)),
                IF BitAnd(a, \h80) # 0 THEN FLAG_N ELSE 0),
          IF a = 0 THEN FLAG_Z ELSE 0)

_adc_decimal(cpu, a, m, carry_in) ==
    LET lo0 == (a % 16) + (m % 16) + carry_in
        hi0 == (a \div 16) + (m \div 16)
        lo == IF lo0 > 9 THEN lo0 - 10 ELSE lo0
        hi1 == IF lo0 > 9 THEN hi0 + 1 ELSE hi0
        p1 == IF hi1 > 9 THEN BitOr(cpu.P, FLAG_C) ELSE BitClear(cpu.P, FLAG_C)
        hi == IF hi1 > 9 THEN hi1 - 10 ELSE hi1
        a1 == Nibbles(hi, lo) % \h100
    IN  [cpu EXCEPT !.A = a1, !.P = DecimalNZV(p1, a1)]

_adc_binary(cpu, a, m, carry_in) ==
    LET result == a + m + carry_in
        carry == IF result > \hFF THEN 1 ELSE 0
        a1 == result % \h100
        overflow == BitAnd(BitClear(BitXor(a, a1), BitXor(a, m)), \h80) # 0
        p1 == BitOr(BitOr(BitClear(cpu.P, BitOr(FLAG_C, FLAG_V)),
                          IF carry # 0 THEN FLAG_C ELSE 0),
                    IF overflow THEN FLAG_V ELSE 0)
    IN  _set_zn([cpu EXCEPT !.A = a1, !.P = p1], a1)

(* decimal addition at the cost of binary addition *)
_adc_free(cpu, operand) ==
    LET carry_in == IF BitAnd(cpu.P, FLAG_C) # 0 THEN 1 ELSE 0
        m == operand % \h100
    IN  IF BitAnd(cpu.P, FLAG_D) # 0
        THEN [cpu |-> [cpu EXCEPT !.A = (cpu.A + m + carry_in) % \h100], extra |-> 0]
        ELSE [cpu |-> [cpu EXCEPT !.A = (cpu.A + m + carry_in) % \h100], extra |-> 0]

(* the machine after the addition and the extra cycle it costs *)
_adc(cpu, operand) ==
    LET carry_in == IF BitAnd(cpu.P, FLAG_C) # 0 THEN 1 ELSE 0
        a == cpu.A
        m == operand % \h100
    IN  IF BitAnd(cpu.P, FLAG_D) # 0
        THEN [cpu |-> _adc_decimal(cpu, a, m, carry_in), extra |-> 1]
        ELSE [cpu |-> _adc_binary(cpu, a, m, carry_in), extra |-> 0]

_sbc_decimal(cpu, a, m, carry_in) ==
    LET lo0 == (a % 16) - (m % 16) - (1 - carry_in)
        hi0 == (a \div 16) - (m \div 16)
        lo == IF lo0 < 0 THEN lo0 + 10 ELSE lo0
        hi1 == IF lo0 < 0 THEN hi0 - 1 ELSE hi0
        p1 == IF hi1 < 0 THEN BitClear(cpu.P, FLAG_C) ELSE BitOr(cpu.P, FLAG_C)
        hi == IF hi1 < 0 THEN hi1 + 10 ELSE hi1
        a1 == Nibbles(hi, lo) % \h100
    IN  [cpu EXCEPT !.A = a1, !.P = DecimalNZV(p1, a1)]

_sbc_binary(cpu, a, m, carry_in) ==
    LET inv_m == BitXor(m, \hFF)
        result == a + inv_m + carry_in
        carry == IF result > \hFF THEN 1 ELSE 0
        a1 == result % \h100
        overflow == BitAnd(BitClear(BitXor(a, a1), BitXor(a, inv_m)), \h80) # 0
        p1 == BitOr(BitOr(BitClear(cpu.P, BitOr(FLAG_C, FLAG_V)),
                          IF carry # 0 THEN FLAG_C ELSE 0),
                    IF overflow THEN FLAG_V ELSE 0)
    IN  _set_zn([cpu EXCEPT !.A = a1, !.P = p1], a1)

_sbc(cpu, operand) ==
    LET carry_in == IF BitAnd(cpu.P, FLAG_C) # 0 THEN 1 ELSE 0
        a == cpu.A
        m == operand % \h100
    IN  IF BitAnd(cpu.P, FLAG_D) # 0
        THEN [cpu |-> _sbc_decimal(cpu, a, m, carry_in), extra |-> 1]
        ELSE [cpu |-> _sbc_binary(cpu, a, m, carry_in), extra |-> 0]

----------------------------------------------------------------------------
(* cpu/opcodes.py: the opcode handlers.  The handlers of one instruction    *)
(* are one operator; mode is the suffix of the handler's name (ADC_zp_x is  *)
(* ADC with mode "zp_x", an implied or relative handler has mode "").  Each *)
(* returns the machine after the handler with ret the cycles it returns.    *)

ADC(cpu, mode, operands) ==
    CASE mode = "imm" ->
           With(_adc(cpu, _parse_operands_imm(operands)), LAMBDA r :
           Ret(r.cpu, 2 + r.extra))
      [] mode = "zp" ->
           With(read(cpu, _parse_operands_zp(operands)), LAMBDA m :
           With(_adc(m.cpu, m.val), LAMBDA r :
           Ret(r.cpu, 3 + r.extra)))
      [] mode = "zp_x" ->
           With(read(cpu, _parse_operands_zp_x(cpu, operands)), LAMBDA m :
           With(_adc(m.cpu, m.val), LAMBDA r :
           Ret(r.cpu, 4 + r.extra)))
      [] mode = "abs" ->
           With(read(cpu, _parse_operands_abs(operands)), LAMBDA m :
           With(_adc(m.cpu, m.val), LAMBDA r :
           Ret(r.cpu, 4 + r.extra)))
      [] mode = "abs_x" ->
           LET ea == _parse_operands_abs_x(cpu, operands) IN
           With(read(cpu, ea.addr), LAMBDA m :
           With(_adc(m.cpu, m.val), LAMBDA r :
           Ret(r.cpu, 4 + (ea.extra + r.extra))))
      [] mode = "abs_y" ->
           LET ea == _parse_operands_abs_y(cpu, operands) IN
           With(read(cpu, ea.addr), LAMBDA m :
           With(_adc(m.cpu, m.val), LAMBDA r :
           Ret(r.cpu, 4 + (ea.extra + r.extra))))
      [] mode = "ind_x" ->
           With(_parse_operands_ind_x(cpu, operands), LAMBDA ea :
           With(read(ea.cpu, ea.addr), LAMBDA m :
           With(_adc(m.cpu, m.val), LAMBDA r :
           Ret(r.cpu, 6 + r.extra))))
      [] mode = "ind_y" ->
           With(_parse_operands_ind_y(cpu, operands), LAMBDA ea :
           With(read(ea.cpu, ea.addr), LAMBDA m :
           With(_adc(m.cpu, m.val), LAMBDA r :
           Ret(r.cpu, 5 + (ea.extra + r.extra)))))

(* The operand fetch shared by the handlers that read one byte and combine  *)
(* it with a register (AND, ORA, EOR, CMP, LDA, ...): the machine after     *)
(* the reads, the byte, and the page-crossing cycle of the abs_x, abs_y and *)
(* ind_y address helpers (0 for the other modes).                           *)
Fetch(cpu, mode, operands) ==
    CASE mode = "imm" ->
           [cpu |-> cpu, val |-> _parse_operands_imm(operands), extra |-> 0]
      [] mode = "zp" ->
           With(read(cpu, _parse_operands_zp(operands)), LAMBDA m :
           [cpu |-> m.cpu, val |-> m.val, extra |-> 0])
      [] mode = "zp_x" ->
           With(read(cpu, _parse_operands_zp_x(cpu, operands)), LAMBDA m :
           [cpu |-> m.cpu, val |-> m.val, extra |-> 0])
      [] mode = "zp_y" ->
           With(read(cpu, _parse_operands_zp_y(cpu, operands)), LAMBDA m :
           [cpu |-> m.cpu, val |-> m.val, extra |-> 0])
      [] mode = "abs" ->
           With(read(cpu, _parse_operands_abs(operands)), LAMBDA m :
           [cpu |-> m.cpu, val |-> m.val, extra |-> 0])
      [] mode = "abs_x" ->
           LET ea == _parse_operands_abs_x(cpu, operands) IN
           With(read(cpu, ea.addr), LAMBDA m :
           [cpu |-> m.cpu, val |-> m.val, extra |-> ea.extra])
      [] mode = "abs_y" ->
           LET ea == _parse_operands_abs_y(cpu, operands) IN
           With(read(cpu, ea.addr), LAMBDA m :
           [cpu |-> m.cpu, val |-> m.val, extra |-> ea.extra])
      [] mode = "ind_x" ->
           With(_parse_operands_ind_x(cpu, operands), LAMBDA ea :
           With(read(ea.cpu, ea.addr), LAMBDA m :
           [cpu |-> m.cpu, val |-> m.val, extra |-> 0]))
      [] mode = "ind_y" ->
           With(_parse_operands_ind_y(cpu, operands), LAMBDA ea :
           With(read(ea.cpu, ea.addr), LAMBDA m :
           [cpu |-> m.cpu, val |-> m.val, extra |-> ea.extra]))

(* the literal each of these handlers returns, before the extra cycle *)
ReadCycles(mode) ==
    CASE mode = "imm" -> 2
      [] mode = "zp" -> 3
      [] mode \in {"zp_x", "zp_y", "abs", "abs_x", "abs_y"} -> 4
      [] mode = "ind_x" -> 6
      [] mode = "ind_y" -> 5

(* The effective address of the handlers that read, change and write back  *)
(* one byte (ASL, LSR, ROL, ROR, INC, DEC); their abs_x handlers add X       *)
(* themselves and ask for no page-crossing cycle.                           *)
RmwAddr(cpu, mode, operands) ==
    CASE mode = "zp" -> _parse_operands_zp(operands)
      [] mode = "zp_x" -> _parse_operands_zp_x(cpu, operands)
      [] mode = "abs" -> _parse_operands_abs(operands)
      [] mode = "abs_x" -> (_parse_operands_abs(operands) + cpu.X) % \h10000

(* the literal each of these handlers returns *)
RmwCycles(mode) ==
    CASE mode = "zp" -> 5
      [] mode \in {"zp_x", "abs"} -> 6
      [] mode = "abs_x" -> 7

AND(cpu, mode, operands) ==
    With(Fetch(cpu, mode, operands), LAMBDA m :
    LET c1 == [m.cpu EXCEPT !.A = BitAnd(cpu.A, m.val)]
    IN  Ret(_set_zn(c1, c1.A), ReadCycles(mode) + m.extra))

ASL(cpu, mode, operands) ==
    IF mode = "acc"
    THEN LET v == cpu.A
             carry == (v \div \h80) % 2
             c1 == [cpu EXCEPT !.A = (v * 2) % \h100,
                               !.P = WithFlag(cpu.P, FLAG_C, carry # 0)]
         IN  Ret(_set_zn(c1, c1.A), 2)
    ELSE LET addr == RmwAddr(cpu, mode, operands) IN
         With(read(cpu, addr), LAMBDA m :
         LET v == m.val
             carry == (v \div \h80) % 2
             res == (v * 2) % \h100 IN
         With(write(m.cpu, addr, res), LAMBDA c1 :
         LET c2 == [c1 EXCEPT !.P = WithFlag(c1.P, FLAG_C, carry # 0)]
         IN  Ret(_set_zn(c2, res), RmwCycles(mode))))

BCC(cpu, mode, operands) ==
    _branch_common(cpu, operands[1], BitAnd(cpu.P, FLAG_C) = 0)

BCS(cpu, mode, operands) ==
    _branch_common(cpu, operands[1], BitAnd(cpu.P, FLAG_C) # 0)

BEQ(cpu, mode, operands) ==
    _branch_common(cpu, operands[1], BitAnd(cpu.P, FLAG_Z) # 0)

BIT(cpu, mode, operands) ==
    With(Fetch(cpu, mode, operands), LAMBDA m :
    LET val == m.val
        res == BitAnd(cpu.A, val)
        p1 == BitOr(BitOr(BitOr(
                  BitClear(m.cpu.P, BitOr(BitOr(FLAG_Z, FLAG_V), FLAG_N)),
                  IF res = 0 THEN FLAG_Z ELSE 0),
                  IF BitAnd(val, \h40) # 0 THEN FLAG_V ELSE 0),
                  IF BitAnd(val, \h80) # 0 THEN FLAG_N ELSE 0)
    IN  Ret([m.cpu EXCEPT !.P = p1], ReadCycles(mode)))

BMI(cpu, mode, operands) ==
    _branch_common(cpu, operands[1], BitAnd(cpu.P, FLAG_N) # 0)

BNE(cpu, mode, operands) ==
    _branch_common(cpu, operands[1], BitAnd(cpu.P, FLAG_Z) = 0)

BPL(cpu, mode, operands) ==
    _branch_common(cpu, operands[1], BitAnd(cpu.P, FLAG_N) = 0)

(* a variant of BRK that pushes the address after the opcode *)
BRK_short(cpu, mode, operands) ==
    LET ret == cpu.PC IN
    With(_stack_push(cpu, (ret \div \h100) % \h100), LAMBDA c1 :
    With(_stack_push(c1, ret % \h100), LAMBDA c2 :
    With(_stack_push(c2, BitOr(BitOr(c2.P, FLAG_B), FLAG_U)), LAMBDA c3 :
    LET c4 == [c3 EXCEPT !.P = BitOr(@, FLAG_I)] IN
    With(read(c4, \hFFFE), LAMBDA lo :
    With(read(lo.cpu, \hFFFF), LAMBDA hi :
    Ret([hi.cpu EXCEPT !.PC = BitOr(hi.val * \h100, lo.val)], 7))))))

(* a variant of BRK that pushes the address after the opcode *)
BRK_no_padding(cpu, mode, operands) ==
    LET ret == cpu.PC IN
    With(_stack_push(cpu, (ret \div \h100) % \h100), LAMBDA c1 :
    With(_stack_push(c1, ret % \h100), LAMBDA c2 :
    With(_stack_push(c2, BitOr(BitOr(c2.P, FLAG_B), FLAG_U)), LAMBDA c3 :
    LET c4 == [c3 EXCEPT !.P = BitOr(@, FLAG_I)] IN
    With(read(c4, \hFFFE), LAMBDA lo :
    With(read(lo.cpu, \hFFFF), LAMBDA hi :
    Ret([hi.cpu EXCEPT !.PC = BitOr(hi.val * \h100, lo.val)], 7))))))

BRK(cpu, mode, operands) ==
    LET ret == cpu.PC + 1 IN
    With(_stack_push(cpu, (ret \div \h100) % \h100), LAMBDA c1 :
    With(_stack_push(c1, ret % \h100), LAMBDA c2 :
    With(_stack_push(c2, BitOr(BitOr(c2.P, FLAG_B), FLAG_U)), LAMBDA c3 :
    LET c4 == [c3 EXCEPT !.P = BitOr(@, FLAG_I)] IN
    With(read(c4, \hFFFE), LAMBDA lo :
    With(read(lo.cpu, \hFFFF), LAMBDA hi :
    Ret([hi.cpu EXCEPT !.PC = BitOr(hi.val * \h100, lo.val)], 7))))))

BVC(cpu, mode, operands) ==
    _branch_common(cpu, operands[1], BitAnd(cpu.P, FLAG_V) = 0)

BVS(cpu, mode, operands) ==
    _branch_common(cpu, operands[1], BitAnd(cpu.P, FLAG_V) # 0)

CLC(cpu, mode, operands) == Ret([cpu EXCEPT !.P = BitClear(@, FLAG_C)], 2)

CLD(cpu, mode, operands) == Ret([cpu EXCEPT !.P = BitClear(@, FLAG_D)], 2)

CLI(cpu, mode, operands) == Ret([cpu EXCEPT !.P = BitClear(@, FLAG_I)], 2)

CLV(cpu, mode, operands) == Ret([cpu EXCEPT !.P = BitClear(@, FLAG_V)], 2)

CMP(cpu, mode, operands) ==
    With(Fetch(cpu, mode, operands), LAMBDA m :
    Ret(_cmp_helper(m.cpu, cpu.A, m.val), ReadCycles(mode) + m.extra))

CPX(cpu, mode, operands) ==
    With(Fetch(cpu, mode, operands), LAMBDA m :
    Ret(_cmp_helper(m.cpu, cpu.X, m.val), ReadCycles(mode)))

CPY(cpu, mode, operands) ==
    With(Fetch(cpu, mode, operands), LAMBDA m :
    Ret(_cmp_helper(m.cpu, cpu.Y, m.val), ReadCycles(mode)))

DEC(cpu, mode, operands) ==
    LET addr == RmwAddr(cpu, mode, operands) IN
    With(read(cpu, addr), LAMBDA m :
    LET v == (m.val - 1) % \h100
    IN  Ret(_set_zn(write(m.cpu, addr, v), v), RmwCycles(mode)))

DEX(cpu, mode, operands) ==
    LET c1 == [cpu EXCEPT !.X = (cpu.X - 1) % \h100]
    IN  Ret(_set_zn(c1, c1.X), 2)

DEY(cpu, mode, operands) ==
    LET c1 == [cpu EXCEPT !.Y = (cpu.Y - 1) % \h100]
    IN  Ret(_set_zn(c1, c1.Y), 2)

EOR(cpu, mode, operands) ==
    With(Fetch(cpu, mode, operands), LAMBDA m :
    LET c1 == [m.cpu EXCEPT !.A = BitXor(cpu.A, m.val)]
    IN  Ret(_set_zn(c1, c1.A), ReadCycles(mode) + m.extra))

INC(cpu, mode, operands) ==
    LET addr == RmwAddr(cpu, mode, operands) IN
    With(read(cpu, addr), LAMBDA m :
    LET v == (m.val + 1) % \h100
    IN  Ret(_set_zn(write(m.cpu, addr, v), v), RmwCycles(mode)))

INX(cpu, mode, operands) ==
    LET c1 == [cpu EXCEPT !.X = (cpu.X + 1) % \h100]
    IN  Ret(_set_zn(c1, c1.X), 2)

INY(cpu, mode, operands) ==
    LET c1 == [cpu EXCEPT !.Y = (cpu.Y + 1) % \h100]
    IN  Ret(_set_zn(c1, c1.Y), 2)

(* an indirect jump that takes the high byte from the address after ptr *)
JMP_next_page(cpu, mode, operands) ==
    IF mode = "abs"
    THEN Ret([cpu EXCEPT !.PC = _parse_operands_abs(operands)], 3)
    ELSE LET ptr == _parse_operands_abs(operands) IN
         With(read(cpu, ptr), LAMBDA lo :
         With(read(lo.cpu, (ptr + 1) % \h10000), LAMBDA hi :
         Ret([hi.cpu EXCEPT !.PC = BitOr(hi.val * \h100, lo.val)], 5)))

JMP(cpu, mode, operands) ==
    IF mode = "abs"
    THEN Ret([cpu EXCEPT !.PC = _parse_operands_abs(operands)], 3)
    ELSE LET ptr == _parse_operands_abs(operands) IN
         With(read(cpu, ptr), LAMBDA lo :
         LET hi_addr == BitOr(BitAnd(ptr, \hFF00), (ptr + 1) % \h100) IN
         With(read(lo.cpu, hi_addr), LAMBDA hi :
         Ret([hi.cpu EXCEPT !.PC = BitOr(hi.val * \h100, lo.val)], 5)))

JSR(cpu, mode, operands) ==
    LET addr == _parse_operands_abs(operands)
        ret == (cpu.PC - 1) % \h10000 IN
    With(_stack_push(cpu, (ret \div \h100) % \h100), LAMBDA c1 :
    With(_stack_push(c1, ret % \h100), LAMBDA c2 :
    Ret([c2 EXCEPT !.PC = addr], 6)))

(* LDA, LDX, LDY: a read from memory is stored as it is, an immediate      *)
(* operand is masked to a byte.                                             *)
Loaded(mode, m) == IF mode = "imm" THEN m.val % \h100 ELSE m.val

LDA(cpu, mode, operands) ==
    With(Fetch(cpu, mode, operands), LAMBDA m :
    LET c1 == [m.cpu EXCEPT !.A = Loaded(mode, m)]
    IN  Ret(_set_zn(c1, c1.A), ReadCycles(mode) + m.extra))

LDX(cpu, mode, operands) ==
    With(Fetch(cpu, mode, operands), LAMBDA m :
    LET c1 == [m.cpu EXCEPT !.X = Loaded(mode, m)]
    IN  Ret(_set_zn(c1, c1.X), ReadCycles(mode) + m.extra))

LDY(cpu, mode, operands) ==
    With(Fetch(cpu, mode, operands), LAMBDA m :
    LET c1 == [m.cpu EXCEPT !.Y = Loaded(mode, m)]
    IN  Ret(_set_zn(c1, c1.Y), ReadCycles(mode) + m.extra))

LSR(cpu, mode, operands) ==
    IF mode = "acc"
    THEN LET v == cpu.A
             carry == v % 2
             res == (v \div 2) % \h100
             c1 == [cpu EXCEPT !.A = res, !.P = WithFlag(cpu.P, FLAG_C, carry # 0)]
         IN  Ret(_set_zn(c1, c1.A), 2)
    ELSE LET addr == RmwAddr(cpu, mode, operands) IN
         With(read(cpu, addr), LAMBDA m :
         LET v == m.val
             carry == v % 2
             res == (v \div 2) % \h100 IN
         With(write(m.cpu, addr, res), LAMBDA c1 :
         LET c2 == [c1 EXCEPT !.P = WithFlag(c1.P, FLAG_C, carry # 0)]
         IN  Ret(_set_zn(c2, res), RmwCycles(mode))))

NOP(cpu, mode, operands) == Ret(cpu, 2)

ORA(cpu, mode, operands) ==
    With(Fetch(cpu, mode, operands), LAMBDA m :
    LET c1 == [m.cpu EXCEPT !.A = BitOr(cpu.A, m.val)]
    IN  Ret(_set_zn(c1, c1.A), ReadCycles(mode) + m.extra))

PHA(cpu, mode, operands) == Ret(_stack_push(cpu, cpu.A), 3)

PLA(cpu, mode, operands) ==
    With(_stack_pop(cpu), LAMBDA r :
    LET c1 == [r.cpu EXCEPT !.A = r.val]
    IN  Ret(_set_zn(c1, c1.A), 4))

(* a variant of PHP that pushes P as it is *)
PHP_raw(cpu, mode, operands) == Ret(_stack_push(cpu, cpu.P), 3)

PHP(cpu, mode, operands) ==
    Ret(_stack_push(cpu, BitOr(BitOr(cpu.P, FLAG_B), FLAG_U)), 3)

(* a variant of PLP that takes the pulled byte as it is *)
PLP_raw(cpu, mode, operands) ==
    With(_stack_pop(cpu), LAMBDA r :
    Ret([r.cpu EXCEPT !.P = r.val], 4))

PLP(cpu, mode, operands) ==
    With(_stack_pop(cpu), LAMBDA r :
    Ret([r.cpu EXCEPT !.P = BitOr(BitClear(r.val, FLAG_B), FLAG_U)], 4))

ROL(cpu, mode, operands) ==
    IF mode = "acc"
    THEN LET carry_in == IF BitAnd(cpu.P, FLAG_C) # 0 THEN 1 ELSE 0
             v == cpu.A
             carry_out == (v \div \h80) % 2
             res == BitOr(v * 2, carry_in) % \h100
             c1 == [cpu EXCEPT !.A = res,
                               !.P = WithFlag(cpu.P, FLAG_C, carry_out # 0)]
         IN  Ret(_set_zn(c1, c1.A), 2)
    ELSE LET addr == RmwAddr(cpu, mode, operands) IN
         With(read(cpu, addr), LAMBDA m :
         LET v == m.val
             carry_in == IF BitAnd(m.cpu.P, FLAG_C) # 0 THEN 1 ELSE 0
             carry_out == (v \div \h80) % 2
             res == BitOr(v * 2, carry_in) % \h100 IN
         With(write(m.cpu, addr, res), LAMBDA c1 :
         LET c2 == [c1 EXCEPT !.P = WithFlag(c1.P, FLAG_C, carry_out # 0)]
         IN  Ret(_set_zn(c2, res), RmwCycles(mode))))

(* a ROR that shifts a zero into bit 7 *)
ROR_zero_fill(cpu, mode, operands) ==
    IF mode = "acc"
    THEN LET v == cpu.A
             carry_out == v % 2
             res == (v \div 2) % \h100
             c1 == [cpu EXCEPT !.A = res,
                               !.P = WithFlag(cpu.P, FLAG_C, carry_out # 0)]
         IN  Ret(_set_zn(c1, c1.A), 2)
    ELSE LET addr == RmwAddr(cpu, mode, operands) IN
         With(read(cpu, addr), LAMBDA m :
         LET v == m.val
             carry_out == v % 2
             res == (v \div 2) % \h100 IN
         With(write(m.cpu, addr, res), LAMBDA c1 :
         LET c2 == [c1 EXCEPT !.P = WithFlag(c1.P, FLAG_C, carry_out # 0)]
         IN  Ret(_set_zn(c2, res), RmwCycles(mode))))

ROR(cpu, mode, operands) ==
    IF mode = "acc"
    THEN LET carry_in == IF BitAnd(cpu.P, FLAG_C) # 0 THEN 1 ELSE 0
             v == cpu.A
             carry_out == v % 2
             res == BitOr(carry_in * \h80, v \div 2) % \h100
             c1 == [cpu EXCEPT !.A = res,
                               !.P = WithFlag(cpu.P, FLAG_C, carry_out # 0)]
         IN  Ret(_set_zn(c1, c1.A), 2)
    ELSE LET addr == RmwAddr(cpu, mode, operands) IN
         With(read(cpu, addr), LAMBDA m :
         LET v == m.val
             carry_in == IF BitAnd(m.cpu.P, FLAG_C) # 0 THEN 1 ELSE 0
             carry_out == v % 2
             res == BitOr(carry_in * \h80, v \div 2) % \h100 IN
         With(write(m.cpu, addr, res), LAMBDA c1 :
         LET c2 == [c1 EXCEPT !.P = WithFlag(c1.P, FLAG_C, carry_out # 0)]
         IN  Ret(_set_zn(c2, res), RmwCycles(mode))))

(* a variant of RTI that takes the pulled status byte as it is *)
RTI_raw(cpu, mode, operands) ==
    With(_stack_pop(cpu), LAMBDA p :
    LET c1 == [p.cpu EXCEPT !.P = p.val] IN
    With(_stack_pop(c1), LAMBDA lo :
    With(_stack_pop(lo.cpu), LAMBDA hi :
    Ret([hi.cpu EXCEPT !.PC = BitOr(hi.val * \h100, lo.val)], 6))))

RTI(cpu, mode, operands) ==
    With(_stack_pop(cpu), LAMBDA p :
    LET c1 == [p.cpu EXCEPT !.P = BitOr(BitClear(p.val, FLAG_B), FLAG_U)] IN
    With(_stack_pop(c1), LAMBDA lo :
    With(_stack_pop(lo.cpu), LAMBDA hi :
    Ret([hi.cpu EXCEPT !.PC = BitOr(hi.val * \h100, lo.val)], 6))))

(* a variant of RTS that returns to the pulled address itself *)
RTS_no_increment(cpu, mode, operands) ==
    With(_stack_pop(cpu), LAMBDA lo :
    With(_stack_pop(lo.cpu), LAMBDA hi :
    LET ret == BitOr(hi.val * \h100, lo.val)
    IN  Ret([hi.cpu EXCEPT !.PC = ret], 6)))

RTS(cpu, mode, operands) ==
    With(_stack_pop(cpu), LAMBDA lo :
    With(_stack_pop(lo.cpu), LAMBDA hi :
    LET ret == BitOr(hi.val * \h100, lo.val)
    IN  Ret([hi.cpu EXCEPT !.PC = (ret + 1) % \h10000], 6)))

SBC(cpu, mode, operands) ==
    With(Fetch(cpu, mode, operands), LAMBDA m :
    With(_sbc(m.cpu, m.val), LAMBDA r :
    Ret(r.cpu, ReadCycles(mode) + (m.extra + r.extra))))

SEC(cpu, mode, operands) == Ret([cpu EXCEPT !.P = BitOr(@, FLAG_C)], 2)

SED(cpu, mode, operands) == Ret([cpu EXCEPT !.P = BitOr(@, FLAG_D)], 2)

SEI(cpu, mode, operands) == Ret([cpu EXCEPT !.P = BitOr(@, FLAG_I)], 2)

STA(cpu, mode, operands) ==
    CASE mode = "zp" ->
           Ret(write(cpu, _parse_operands_zp(operands), cpu.A), 3)
      [] mode = "zp_x" ->
           Ret(write(cpu, _parse_operands_zp_x(cpu, operands), cpu.A), 4)
      [] mode = "abs" ->
           Ret(write(cpu, _parse_operands_abs(operands), cpu.A), 4)
      [] mode = "abs_x" ->
           Ret(write(cpu, (_parse_operands_abs(operands) + cpu.X) % \h10000, cpu.A), 5)
      [] mode = "abs_y" ->
           Ret(write(cpu, (_parse_operands_abs(operands) + cpu.Y) % \h10000, cpu.A), 5)
      [] mode = "ind_x" ->
           LET zp == (operands[1] + cpu.X) % \h100 IN
           With(read(cpu, zp), LAMBDA lo :
           With(read(lo.cpu, (zp + 1) % \h100), LAMBDA hi :
           LET addr == BitOr(hi.val * \h100, lo.val)
           IN  Ret(write(hi.cpu, addr, hi.cpu.A), 6)))
      [] mode = "ind_y" ->
           LET zp == operands[1] % \h100 IN
           With(read(cpu, zp), LAMBDA lo :
           With(read(lo.cpu, (zp + 1) % \h100), LAMBDA hi :
           LET addr == (BitOr(hi.val * \h100, lo.val) + hi.cpu.Y) % \h10000
           IN  Ret(write(hi.cpu, addr, hi.cpu.A), 6)))

STX(cpu, mode, operands) ==
    CASE mode = "zp" ->
           Ret(write(cpu, _parse_operands_zp(operands), cpu.X), 3)
      [] mode = "zp_y" ->
           Ret(write(cpu, _parse_operands_zp_y(cpu, operands), cpu.X), 4)
      [] mode = "abs" ->
           Ret(write(cpu, _parse_operands_abs(operands), cpu.X), 4)

STY(cpu, mode, operands) ==
    CASE mode = "zp" ->
           Ret(write(cpu, _parse_operands_zp(operands), cpu.Y), 3)
      [] mode = "zp_x" ->
           Ret(write(cpu, _parse_operands_zp_x(cpu, operands), cpu.Y), 4)
      [] mode = "abs" ->
           Ret(write(cpu, _parse_operands_abs(operands), cpu.Y), 4)

TAX(cpu, mode, operands) ==
    LET c1 == [cpu EXCEPT !.X = cpu.A % \h100]
    IN  Ret(_set_zn(c1, c1.X), 2)

TAY(cpu, mode, operands) ==
    LET c1 == [cpu EXCEPT !.Y = cpu.A % \h100]
    IN  Ret(_set_zn(c1, c1.Y), 2)

TSX(cpu, mode, operands) ==
    LET c1 == [cpu EXCEPT !.X = cpu.SP % \h100]
    IN  Ret(_set_zn(c1, c1.X), 2)

TXA(cpu, mode, operands) ==
    LET c1 == [cpu EXCEPT !.A = cpu.X % \h100]
    IN  Ret(_set_zn(c1, c1.A), 2)

TXS(cpu, mode, operands) == Ret([cpu EXCEPT !.SP = cpu.X % \h100], 2)

TYA(cpu, mode, operands) ==
    LET c1 == [cpu EXCEPT !.A = cpu.Y % \h100]
    IN  Ret(_set_zn(c1, c1.A), 2)

(* raises NotImplementedError; a is the opcode and b the PC its message names *)
illegal(cpu, mode, operands) ==
    LET opcode == Peek(cpu.data, cpu.PC - 1)
    IN  [cpu EXCEPT !.exc = [type |-> "NotImplementedError", a |-> opcode, b |-> cpu.PC]]

----------------------------------------------------------------------------
(* the table as created, before any handler is registered and with every    *)
(* slot handed to illegal                                                   *)
opcode_table_bare == [op \in 1..256 |-> <<1, "illegal", "">>]

(* the opcode bytes of the @register_opcode decorators, in the order of the *)
(* module                                                                   *)
registered ==
    <<
       \h69, \h65, \h75, \h6D, \h7D, \h79, \h61, \h71, \h29, \h25, \h35, \h2D,
       \h3D, \h39, \h21, \h31, \h0A, \h06, \h16, \h0E, \h1E, \h90, \hB0, \hF0,
       \h24, \h2C, \h30, \hD0, \h10, \h00, \h50, \h70, \h18, \hD8, \h58, \hB8,
       \hC9, \hC5, \hD5, \hCD, \hDD, \hD9, \hC1, \hD1, \hE0, \hE4, \hEC, \hC0,
       \hC4, \hCC, \hC6, \hD6, \hCE, \hDE, \hCA, \h88, \h49, \h45, \h55, \h4D,
       \h5D, \h59, \h41, \h51, \hE6, \hF6, \hEE, \hFE, \hE8, \hC8, \h4C, \h6C,
       \h20, \hA9, \hA5, \hB5, \hAD, \hBD, \hB9, \hA1, \hB1, \hA2, \hA6, \hB6,
       \hAE, \hBE, \hA0, \hA4, \hB4, \hAC, \hBC, \h4A, \h46, \h56, \h4E, \h5E,
       \hEA, \h09, \h05, \h15, \h0D, \h1D, \h19, \h01, \h11, \h48, \h68, \h08,
       \h28, \h2A, \h26, \h36, \h2E, \h3E, \h6A, \h66, \h76, \h6E, \h7E, \h40,
       \h60, \hE9, \hE5, \hF5, \hED, \hFD, \hF9, \hE1, \hF1, \h38, \hF8, \h78,
       \h85, \h95, \h8D, \h9D, \h99, \h81, \h91, \h86, \h96, \h8E, \h84, \h94,
       \h8C, \hAA, \hA8, \hBA, \h8A, \h9A, \h98
    >>

(* cpu/opcodes.py: opcode_table after the module is loaded.  Entry op + 1   *)
(* is <<length, handler, mode>> for opcode byte op: what register_opcode    *)
(* stored, or (1, illegal) where no handler was registered.                 *)
opcode_table ==
    <<
    (* 00 *) <<1, "BRK", "">>, <<2, "ORA", "ind_x">>, <<1, "illegal", "">>, <<1, "illegal", "">>,
             <<1, "illegal", "">>, <<2, "ORA", "zp">>, <<2, "ASL", "zp">>, <<1, "illegal", "">>,
             <<1, "PHP", "">>, <<2, "ORA", "imm">>, <<1, "ASL", "acc">>, <<1, "illegal", "">>,
             <<1, "illegal", "">>, <<3, "ORA", "abs">>, <<3, "ASL", "abs">>, <<1, "illegal", "">>,
    (* 10 *) <<2, "BPL", "">>, <<2, "ORA", "ind_y">>, <<1, "illegal", "">>, <<1, "illegal", "">>,
             <<1, "illegal", "">>, <<2, "ORA", "zp_x">>, <<2, "ASL", "zp_x">>, <<1, "illegal", "">>,
             <<1, "CLC", "">>, <<3, "ORA", "abs_y">>, <<1, "illegal", "">>, <<1, "illegal", "">>,
             <<1, "illegal", "">>, <<3, "ORA", "abs_x">>, <<3, "ASL", "abs_x">>, <<1, "illegal", "">>,
    (* 20 *) <<3, "JSR", "abs">>, <<2, "AND", "ind_x">>, <<1, "illegal", "">>, <<1, "illegal", "">>,
             <<2, "BIT", "zp">>, <<2, "AND", "zp">>, <<2, "ROL", "zp">>, <<1, "illegal", "">>,
             <<1, "PLP", "">>, <<2, "AND", "imm">>, <<1, "ROL", "acc">>, <<1, "illegal", "">>,
             <<3, "BIT", "abs">>, <<3, "AND", "abs">>, <<3, "ROL", "abs">>, <<1, "illegal", "">>,
    (* 30 *) <<2, "BMI", "">>, <<2, "AND", "ind_y">>, <<1, "illegal", "">>, <<1, "illegal", "">>,
             <<1, "illegal", "">>, <<2, "AND", "zp_x">>, <<2, "ROL", "zp_x">>, <<1, "illegal", "">>,
             <<1, "SEC", "">>, <<3, "AND", "abs_y">>, <<1, "illegal", "">>, <<1, "illegal", "">>,
             <<1, "illegal", "">>, <<3, "AND", "abs_x">>, <<3, "ROL", "abs_x">>, <<1, "illegal", "">>,
    (* 40 *) <<1, "RTI", "">>, <<2, "EOR", "ind_x">>, <<1, "illegal", "">>, <<1, "illegal", "">>,
             <<1, "illegal", "">>, <<2, "EOR", "zp">>, <<2, "LSR", "zp">>, <<1, "illegal", "">>,
             <<1, "PHA", "">>, <<2, "EOR", "imm">>, <<1, "LSR", "acc">>, <<1, "illegal", "">>,
             <<3, "JMP", "abs">>, <<3, "EOR", "abs">>, <<3, "LSR", "abs">>, <<1, "illegal", "">>,
    (* 50 *) <<2, "BVC", "">>, <<2, "EOR", "ind_y">>, <<1, "illegal", "">>, <<1, "illegal", "">>,
             <<1, "illegal", "">>, <<2, "EOR", "zp_x">>, <<2, "LSR", "zp_x">>, <<1, "illegal", "">>,
             <<1, "CLI", "">>, <<3, "EOR", "abs_y">>, <<1, "illegal", "">>, <<1, "illegal", "">>,
             <<1, "illegal", "">>, <<3, "EOR", "abs_x">>, <<3, "LSR", "abs_x">>, <<1, "illegal", "">>,
    (* 60 *) <<1, "RTS", "">>, <<2, "ADC", "ind_x">>, <<1, "illegal", "">>, <<1, "illegal", "">>,
             <<1, "illegal", "">>, <<2, "ADC", "zp">>, <<2, "ROR", "zp">>, <<1, "illegal", "">>,
             <<1, "PLA", "">>, <<2, "ADC", "imm">>, <<1, "ROR", "acc">>, <<1, "illegal", "">>,
             <<3, "JMP", "ind">>, <<3, "ADC", "abs">>, <<3, "ROR", "abs">>, <<1, "illegal", "">>,
    (* 70 *) <<2, "BVS", "">>, <<2, "ADC", "ind_y">>, <<1, "illegal", "">>, <<1, "illegal", "">>,
             <<1, "illegal", "">>, <<2, "ADC", "zp_x">>, <<2, "ROR", "zp_x">>, <<1, "illegal", "">>,
             <<1, "SEI", "">>, <<3, "ADC", "abs_y">>, <<1, "illegal", "">>, <<1, "illegal", "">>,
             <<1, "illegal", "">>, <<3, "ADC", "abs_x">>, <<3, "ROR", "abs_x">>, <<1, "illegal", "">>,
    (* 80 *) <<1, "illegal", "">>, <<2, "STA", "ind_x">>, <<1, "illegal", "">>, <<1, "illegal", "">>,
             <<2, "STY", "zp">>, <<2, "STA", "zp">>, <<2, "STX", "zp">>, <<1, "illegal", "">>,
             <<1, "DEY", "">>, <<1, "illegal", "">>, <<1, "TXA", "">>, <<1, "illegal", "">>,
             <<3, "STY", "abs">>, <<3, "STA", "abs">>, <<3, "STX", "abs">>, <<1, "illegal", "">>,
    (* 90 *) <<2, "BCC", "">>, <<2, "STA", "ind_y">>, <<1, "illegal", "">>, <<1, "illegal", "">>,
             <<2, "STY", "zp_x">>, <<2, "STA", "zp_x">>, <<2, "STX", "zp_y">>, <<1, "illegal", "">>,
             <<1, "TYA", "">>, <<3, "STA", "abs_y">>, <<1, "TXS", "">>, <<1, "illegal", "">>,
             <<1, "illegal", "">>, <<3, "STA", "abs_x">>, <<1, "illegal", "">>, <<1, "illegal", "">>,
    (* A0 *) <<2, "LDY", "imm">>, <<2, "LDA", "ind_x">>, <<2, "LDX", "imm">>, <<1, "illegal", "">>,
             <<2, "LDY", "zp">>, <<2, "LDA", "zp">>, <<2, "LDX", "zp">>, <<1, "illegal", "">>,
             <<1, "TAY", "">>, <<2, "LDA", "imm">>, <<1, "TAX", "">>, <<1, "illegal", "">>,
             <<3, "LDY", "abs">>, <<3, "LDA", "abs">>, <<3, "LDX", "abs">>, <<1, "illegal", "">>,
    (* B0 *) <<2, "BCS", "">>, <<2, "LDA", "ind_y">>, <<1, "illegal", "">>, <<1, "illegal", "">>,
             <<2, "LDY", "zp_x">>, <<2, "LDA", "zp_x">>, <<2, "LDX", "zp_y">>, <<1, "illegal", "">>,
             <<1, "CLV", "">>, <<3, "LDA", "abs_y">>, <<1, "TSX", "">>, <<1, "illegal", "">>,
             <<3, "LDY", "abs_x">>, <<3, "LDA", "abs_x">>, <<3, "LDX", "abs_y">>, <<1, "illegal", "">>,
    (* C0 *) <<2, "CPY", "imm">>, <<2, "CMP", "ind_x">>, <<1, "illegal", "">>, <<1, "illegal", "">>,
             <<2, "CPY", "zp">>, <<2, "CMP", "zp">>, <<2, "DEC", "zp">>, <<1, "illegal", "">>,
             <<1, "INY", "">>, <<2, "CMP", "imm">>, <<1, "DEX", "">>, <<1, "illegal", "">>,
             <<3, "CPY", "abs">>, <<3, "CMP", "abs">>, <<3, "DEC", "abs">>, <<1, "illegal", "">>,
    (* D0 *) <<2, "BNE", "">>, <<2, "CMP", "ind_y">>, <<1, "illegal", "">>, <<1, "illegal", "">>,
             <<1, "illegal", "">>, <<2, "CMP", "zp_x">>, <<2, "DEC", "zp_x">>, <<1, "illegal", "">>,
             <<1, "CLD", "">>, <<3, "CMP", "abs_y">>, <<1, "illegal", "">>, <<1, "illegal", "">>,
             <<1, "illegal", "">>, <<3, "CMP", "abs_x">>, <<3, "DEC", "abs_x">>, <<1, "illegal", "">>,
    (* E0 *) <<2, "CPX", "imm">>, <<2, "SBC", "ind_x">>, <<1, "illegal", "">>, <<1, "illegal", "">>,
             <<2, "CPX", "zp">>, <<2, "SBC", "zp">>, <<2, "INC", "zp">>, <<1, "illegal", "">>,
             <<1, "INX", "">>, <<2, "SBC", "imm">>, <<1, "NOP", "">>, <<1, "illegal", "">>,
             <<3, "CPX", "abs">>, <<3, "SBC", "abs">>, <<3, "INC", "abs">>, <<1, "illegal", "">>,
    (* F0 *) <<2, "BEQ", "">>, <<2, "SBC", "ind_y">>, <<1, "illegal", "">>, <<1, "illegal", "">>,
             <<1, "illegal", "">>, <<2, "SBC", "zp_x">>, <<2, "INC", "zp_x">>, <<1, "illegal", "">>,
             <<1, "SED", "">>, <<3, "SBC", "abs_y">>, <<1, "illegal", "">>, <<1, "illegal", "">>,
             <<1, "illegal", "">>, <<3, "SBC", "abs_x">>, <<3, "INC", "abs_x">>, <<1, "illegal", "">>
    >>

(* func(self, operands) in CPU6502.step: the call of the handler the table  *)
(* names *)
Call(name, cpu, mode, operands) ==
    CASE name = "ADC" -> ADC(cpu, mode, operands)
      [] name = "AND" -> AND(cpu, mode, operands)
      [] name = "ASL" -> ASL(cpu, mode, operands)
      [] name = "BCC" -> BCC(cpu, mode, operands)
      [] name = "BCS" -> BCS(cpu, mode, operands)
      [] name = "BEQ" -> BEQ(cpu, mode, operands)
      [] name = "BIT" -> BIT(cpu, mode, operands)
      [] name = "BMI" -> BMI(cpu, mode, operands)
      [] name = "BNE" -> BNE(cpu, mode, operands)
      [] name = "BPL" -> BPL(cpu, mode, operands)
      [] name = "BRK" -> BRK(cpu, mode, operands)
      [] name = "BVC" -> BVC(cpu, mode, operands)
      [] name = "BVS" -> BVS(cpu, mode, operands)
      [] name = "CLC" -> CLC(cpu, mode, operands)
      [] name = "CLD" -> CLD(cpu, mode, operands)
      [] name = "CLI" -> CLI(cpu, mode, operands)
      [] name = "CLV" -> CLV(cpu, mode, operands)
      [] name = "CMP" -> CMP(cpu, mode, operands)
      [] name = "CPX" -> CPX(cpu, mode, operands)
      [] name = "CPY" -> CPY(cpu, mode, operands)
      [] name = "DEC" -> DEC(cpu, mode, operands)
      [] name = "DEX" -> DEX(cpu, mode, operands)
      [] name = "DEY" -> DEY(cpu, mode, operands)
      [] name = "EOR" -> EOR(cpu, mode, operands)
      [] name = "INC" -> INC(cpu, mode, operands)
      [] name = "INX" -> INX(cpu, mode, operands)
      [] name = "INY" -> INY(cpu, mode, operands)
      [] name = "JMP" -> JMP(cpu, mode, operands)
      [] name = "JSR" -> JSR(cpu, mode, operands)
      [] name = "LDA" -> LDA(cpu, mode, operands)
      [] name = "LDX" -> LDX(cpu, mode, operands)
      [] name = "LDY" -> LDY(cpu, mode, operands)
      [] name = "LSR" -> LSR(cpu, mode, operands)
      [] name = "NOP" -> NOP(cpu, mode, operands)
      [] name = "ORA" -> ORA(cpu, mode, operands)
      [] name = "PHA" -> PHA(cpu, mode, operands)
      [] name = "PHP" -> PHP(cpu, mode, operands)
      [] name = "PLA" -> PLA(cpu, mode, operands)
      [] name = "PLP" -> PLP(cpu, mode, operands)
      [] name = "ROL" -> ROL(cpu, mode, operands)
      [] name = "ROR" -> ROR(cpu, mode, operands)
      [] name = "RTI" -> RTI(cpu, mode, operands)
      [] name = "RTS" -> RTS(cpu, mode, operands)
      [] name = "SBC" -> SBC(cpu, mode, operands)
      [] name = "SEC" -> SEC(cpu, mode, operands)
      [] name = "SED" -> SED(cpu, mode, operands)
      [] name = "SEI" -> SEI(cpu, mode, operands)
      [] name = "STA" -> STA(cpu, mode, operands)
      [] name = "STX" -> STX(cpu, mode, operands)
      [] name = "STY" -> STY(cpu, mode, operands)
      [] name = "TAX" -> TAX(cpu, mode, operands)
      [] name = "TAY" -> TAY(cpu, mode, operands)
      [] name = "TSX" -> TSX(cpu, mode, operands)
      [] name = "TXA" -> TXA(cpu, mode, operands)
      [] name = "TXS" -> TXS(cpu, mode, operands)
      [] name = "TYA" -> TYA(cpu, mode, operands)
      [] name = "illegal" -> illegal(cpu, mode, operands)

----------------------------------------------------------------------------
(* cpu/core.py *)

(* Variants of CPU6502.reset: one that leaves the reset vector as it is,   *)
(* one that does what the hardware does to SP and P (three phantom pushes, *)
(* I set).                                                                  *)
reset_keep_vector(cpu) ==
    With(read(cpu, \hFFFC), LAMBDA lo :
    With(read(lo.cpu, \hFFFD), LAMBDA hi :
    [hi.cpu EXCEPT !.PC = BitOr(hi.val * \h100, lo.val),
                       !.A = 0, !.X = 0, !.Y = 0, !.SP = \hFF, !.P = \h20]))

reset_hardware(cpu) ==
    With(reset_vector(cpu), LAMBDA c1 :
    With(read(c1, \hFFFC), LAMBDA lo :
    With(read(lo.cpu, \hFFFD), LAMBDA hi :
    [hi.cpu EXCEPT !.PC = BitOr(hi.val * \h100, lo.val),
                       !.A = 0, !.X = 0, !.Y = 0,
                       !.SP = (cpu.SP - 3) % \h100,
                       !.P = BitOr(BitOr(cpu.P, FLAG_I), FLAG_U)])))

(* CPU6502.reset *)
reset(cpu) ==
    With(reset_vector(cpu), LAMBDA c1 :
    With(read(c1, \hFFFC), LAMBDA lo :
    With(read(lo.cpu, \hFFFD), LAMBDA hi :
    [hi.cpu EXCEPT !.PC = BitOr(hi.val * \h100, lo.val),
                       !.A = 0, !.X = 0, !.Y = 0, !.SP = \hFF, !.P = \h20])))

(* a variant of CPU6502.step that does not wrap at the top of memory *)
step_nowrap(cpu) ==
    LET opcode == Peek(cpu.data, cpu.PC)
        entry == opcode_table[opcode + 1]
        oplen == entry[1]
        operands == [i \in 1..(oplen - 1) |-> Peek(cpu.data, cpu.PC + i)]
        c1 == [cpu EXCEPT !.PC = cpu.PC + oplen]
    IN  Call(entry[2], c1, entry[3], operands)

(* CPU6502.step: the opcode and the operands are read from mem.data *)
step(cpu) ==
    LET opcode == Peek(cpu.data, cpu.PC)
        entry == opcode_table[opcode + 1]
        oplen == entry[1]
        operands == [i \in 1..(oplen - 1) |-> Peek(cpu.data, (cpu.PC + i) % \h10000)]
        c1 == [cpu EXCEPT !.PC = (cpu.PC + oplen) % \h10000]
    IN  Call(entry[2], c1, entry[3], operands)


----------------------------------------------------------------------------
(* The program as a state machine.                                          *)

(* bounds of the model *)
MaxSteps == 8       \* step() calls in one run
MaxResets == 2      \* reset() calls after construction
MaxCalls == 4       \* calls made to the Memory object by its owner

Byte == 0..255

(* the record of a call: its name, the registers before it, the address    *)
(* and value passed, what it returned and what it raised                    *)
CallRec(op, addr, val, cpu) ==
    [op |-> op, A |-> A, X |-> X, Y |-> Y, SP |-> SP, P |-> P, PC |-> PC,
     addr |-> addr, val |-> val, ret |-> cpu.ret, exc |-> cpu.exc]

(* the variables a handler can change take the values of the record *)
Install(cpu) ==
    /\ A' = cpu.A /\ X' = cpu.X /\ Y' = cpu.Y
    /\ SP' = cpu.SP /\ P' = cpu.P /\ PC' = cpu.PC
    /\ data' = cpu.data
    /\ _key_pressed' = cpu.key_pressed /\ _kbdcr' = cpu.kbdcr
    /\ _col' = cpu.col /\ stdout' = cpu.stdout
    /\ io_log' = cpu.io_log

(* cpu.step(), called by the scheduler loop of A1E.run and by the tests *)
Step ==
    /\ steps < MaxSteps
    /\ \E cpu \in {step(Machine)} :
           /\ Install(cpu)
           /\ last' = CallRec("step", PC, Peek(data, PC), cpu)
    /\ prev' = last
    /\ steps' = steps + 1
    /\ UNCHANGED <<_io_handlers, _rom_start, stdin, written, resets, calls>>
    /\ UNCHANGED runVars

(* cpu.reset() *)
Reset ==
    /\ resets < MaxResets
    /\ \E cpu \in {reset(Machine)} :
           /\ Install(cpu)
           /\ last' = CallRec("reset", 0, 0, cpu)
    /\ prev' = last
    /\ resets' = resets + 1
    /\ UNCHANGED <<_io_handlers, _rom_start, stdin, written, steps, calls>>
    /\ UNCHANGED runVars

(* The calls the owner of a Memory object makes on it: the addresses and    *)
(* values passed are Python integers of any size and sign.                  *)
MemAddrs == {\h0010, \h10010, \hD012, \hF000, -1}
MemVals == {\h00, \h41, \h1C1}
MapAddrs == {\h0010, \hD012, \hF000}
MapHooks == {<<"None", "None">>, <<"read_status", "None">>, <<"None", "write_char">>}

(* mem.write(a, v) *)
MemWrite ==
    /\ calls < MaxCalls
    /\ \E a \in MemAddrs, v \in MemVals :
       \E cpu \in {write(Machine, a, v)} :
           /\ Install(cpu)
           /\ last' = CallRec("write", a, v, cpu)
           /\ written' = [k \in (DOMAIN written) \cup {a % \h10000} |->
                             IF k = a % \h10000 THEN v ELSE written[k]]
    /\ prev' = last
    /\ calls' = calls + 1
    /\ UNCHANGED <<_io_handlers, _rom_start, stdin, steps, resets>>
    /\ UNCHANGED runVars

(* mem.read(a) *)
MemRead ==
    /\ calls < MaxCalls
    /\ \E a \in MemAddrs :
       \E r \in {read(Machine, a)} :
           /\ Install(r.cpu)
           /\ last' = CallRec("read", a, 0, Ret(r.cpu, r.val))
    /\ prev' = last
    /\ calls' = calls + 1
    /\ UNCHANGED <<_io_handlers, _rom_start, stdin, written, steps, resets>>
    /\ UNCHANGED runVars

(* mem.map_io(a, read, write) *)
MemMapIo ==
    /\ calls < MaxCalls
    /\ \E a \in MapAddrs, h \in MapHooks :
           /\ _io_handlers' = map_io(_io_handlers, a, h[1], h[2])
           /\ last' = CallRec("map_io", a, 0, Machine)
           /\ written' = [k \in (DOMAIN written) \ {a} |-> written[k]]
    /\ prev' = last
    /\ calls' = calls + 1
    /\ UNCHANGED <<A, X, Y, SP, P, PC, data, _rom_start, _key_pressed, _kbdcr,
                   stdin, _col, stdout, io_log, steps, resets>>
    /\ UNCHANGED runVars

(* the images the owner loads: over the keyboard and display addresses      *)
(* (below or inside the ROM window, by rom_start), at the last byte of      *)
(* memory, and one byte too long for it                                     *)
MemImages ==
    { << <<\hC1, \h55>>, \hD011 >>,
      << <<\h99>>, \hFFFF >>,
      << <<\h01, \h02>>, \hFFFF >> }

(* mem.load_data(bytes, start) *)
MemLoad ==
    /\ calls < MaxCalls
    /\ \E g \in MemImages :
       \E cpu \in {load_data(Machine, g[1], g[2])} :
           /\ Install(cpu)
           /\ last' = CallRec("load_data", g[2], Len(g[1]), cpu)
           /\ written' = [k \in (DOMAIN written) \ (g[2]..(g[2] + Len(g[1]) - 1)) |->
                             written[k]]
    /\ prev' = last
    /\ calls' = calls + 1
    /\ UNCHANGED <<_io_handlers, _rom_start, stdin, steps, resets>>
    /\ UNCHANGED runVars

----------------------------------------------------------------------------
(* Construction.  Memory(rom_start) is RAM_SIZE zero bytes and no hooks;    *)
(* A1E.load_data copies the images in; A1E.run creates Video and Keyboard,  *)
(* maps the three I/O addresses and creates the CPU, whose constructor      *)
(* resets it, and resets it again.                                          *)
NoData == [a \in {} |-> 0]

NoHandlers == [a \in {} |-> <<"None", "None">>]

Wired ==
    map_io(map_io(map_io(NoHandlers, VIDEO_ADDR, "None", "write_char"),
                  KBD_DATA, "read_char", "None"),
           KBD_CTRL, "read_status", "None")

(* images is a sequence of <<bytes, start>>, loaded in order *)
RECURSIVE Loaded_images(_, _)
Loaded_images(cpu, images) ==
    IF images = <<>> THEN cpu
    ELSE Loaded_images(load_data(cpu, Head(images)[1], Head(images)[2]), Tail(images))

Blank ==
    [A |-> 0, X |-> 0, Y |-> 0, SP |-> 0, P |-> 0, PC |-> 0,
     data |-> NoData, key_pressed |-> 0, kbdcr |-> 0,
     col |-> 0, stdout |-> <<>>, io_log |-> <<>>,
     ret |-> 0, exc |-> NoExc]

InitWith(rom_start, handlers, images) ==
    /\ _rom_start = rom_start
    /\ _io_handlers = handlers
    /\ stdin = <<>>
    /\ at = "try"
    /\ cycles = 0 /\ emu_time = 0 /\ now = 0 /\ clock = 0 /\ slept = <<>>
    /\ tty = "cbreak" /\ _old_settings = "cooked"
    /\ raised = NoExc
    /\ frames = 0
    /\ status = -1
    /\ \E loaded \in {Loaded_images(Blank, images)} :
       \E constructed \in {reset(loaded)} :
       \E cpu \in {reset(constructed)} :
           /\ A = cpu.A /\ X = cpu.X /\ Y = cpu.Y
           /\ SP = cpu.SP /\ P = cpu.P /\ PC = cpu.PC
           /\ data = cpu.data
           /\ _key_pressed = cpu.key_pressed /\ _kbdcr = cpu.kbdcr
           /\ _col = cpu.col /\ stdout = cpu.stdout
           /\ io_log = cpu.io_log
    /\ last = [op |-> "init", A |-> 0, X |-> 0, Y |-> 0, SP |-> 0, P |-> 0,
               PC |-> 0, addr |-> 0, val |-> 0, ret |-> 0, exc |-> NoExc]
    /\ prev = last
    /\ written = [k \in {} |-> 0]
    /\ steps = 0
    /\ resets = 0
    /\ calls = 0

----------------------------------------------------------------------------
(* The images the host loads.  A run starts at the reset vector, which      *)
(* reset_vector() points at rom_start, so the monitor image at rom_start    *)
(* runs first.  The monitor used here brings the CPU into a chosen state:   *)
(*     LDX #s-3 ; TXS ; LDA #a ; LDX #x ; LDY #y ; RTI                      *)
(* with p and pc waiting on the stack for the RTI, and leaves the CPU at pc *)
(* with A = a, X = x, Y = y, SP = s and P = (p & ~B) | U after six steps.   *)
(* The images are given as the runs of bytes they hold, loaded in order.    *)

(* bytes at consecutive addresses from start, wrapping at 64 KiB: the part  *)
(* that fits below the top of memory, and the rest loaded at address 0      *)
At(bytes, start) ==
    LET room == RAM_SIZE - start
    IN  IF Len(bytes) <= room THEN << <<bytes, start>> >>
        ELSE << <<SubSeq(bytes, 1, room), start>>,
                <<SubSeq(bytes, room + 1, Len(bytes)), 0>> >>

Monitor(rs, r) ==
    At(<< \hA2, (r.s - 3) % \h100, \h9A, \hA9, r.a, \hA2, r.x, \hA0, r.y, \h40 >>, rs)
    \o << << <<r.p>>, \h100 + ((r.s - 2) % \h100) >>,
          << <<r.pc % \h100>>, \h100 + ((r.s - 1) % \h100) >>,
          << <<r.pc \div \h100>>, \h100 + r.s >> >>

(* the instructions of the monitor *)
MonitorSteps == Len(<<"LDX", "TXS", "LDA", "LDX", "LDY", "RTI">>)

(* the state the monitor leaves: a, x, y, s, p and pc *)
Regs(a, x, y, s, p, pc) == [a |-> a, x |-> x, y |-> y, s |-> s, p |-> p, pc |-> pc]

(* data the instructions find: pointers in zero page, bytes on the stack,   *)
(* the break vector                                                         *)
Scenery ==
    << << <<\h12, \hD0>>, \h0010 >>,
       << <<\hFF, \hDF, \hFF, \h3F>>, \h00FF >>,
       << <<\h34, \h12>>, \hFFFE >> >>

(* Every opcode byte, with operand bytes from both ends of the byte range,  *)
(* pointing into zero page, the stack page, the I/O page and ROM, from five *)
(* CPU states, with the ROM window at the top of memory and with a ROM      *)
(* window that holds most of the stack page.                                *)
OpcodeSetups ==
    { Regs(\h00, \h00, \h00, \hFF, \h00, \h0200),
      Regs(\hFF, \hFF, \h01, \h01, \hFF, \h0200),
      Regs(\h99, \h12, \hFF, \h80, \h09, \hFFFE),
      Regs(\h80, \h01, \h80, \h00, \hC3, \h02FD),
      Regs(\h41, \h10, \h02, \hFE, \h42, \hFFFF) }

OpcodeOperands == { <<\h00, \h00>>, <<\hFF, \h00>>, <<\h10, \hD0>>, <<\hFF, \hF0>>, <<\h80, \h01>> }

OpcodeRoms == { \hF000, \h0140 }

InitOpcodes ==
    \E rs \in OpcodeRoms, r \in OpcodeSetups, op \in Byte, o \in OpcodeOperands :
        InitWith(rs, Wired,
                 Scenery \o Monitor(rs, r) \o At(<<op, o[1], o[2]>>, r.pc))

SpecOpcodes == InitOpcodes /\ [][Step]_vars

(* Programs: a ROM start, the state the monitor leaves and the images of    *)
(* the program the monitor enters.                                          *)
Program(rs, r, images) == [rom |-> rs, r |-> r, images |-> images]

(* JSR target at p, RTS at the target *)
CallPrograms ==
    { Program(\hF000, Regs(\h11, \h22, \h33, s, \hC3, p),
              At(<<\h60>>, t) \o At(<<\h20, t % \h100, t \div \h100>>, p)) :
        p \in {\h0200, \hFFFD, \hFFFE, \hFFFF}, s \in {\hFF, \h80, \h01, \h00},
        t \in {\h0300, \h01F0, \hFFF0} }

(* PHP ; PLP at pc *)
StatusPrograms ==
    { Program(\hF000, Regs(\h11, \h22, \h33, s, p, pc), At(<<\h08, \h28>>, pc)) :
        pc \in {\h0200, \hFFFF}, s \in {\hFF, \h01, \h00}, p \in {\h00, \hFF, \h4A, \h85} }

(* BRK at pc *)
BreakPrograms ==
    { Program(\hF000, Regs(\h11, \h22, \h33, s, p, pc), At(<<\h00>>, pc)) :
        pc \in {\h0200, \hFFFD, \hFFFE, \hFFFF}, s \in {\hFF, \h02, \h01, \h00},
        p \in {\h00, \hFF, \hC3} }

(* STA $FFFC ; STA $FFFD with the reset vector in RAM *)
VectorPrograms ==
    { Program(\hFFFE, Regs(\h55, \h22, \h33, \h80, \hC3, \h0200),
              At(<<\h8D, \hFC, \hFF, \h8D, \hFD, \hFF>>, \h0200)) }

(* PHA ; PLA from every stack pointer *)
StackPrograms ==
    { Program(\hF000, Regs(a, \h22, \h33, s, p, \h0200), At(<<\h48, \h68>>, \h0200)) :
        a \in {\h00, \h80, \h41}, s \in 0..\hFF, p \in {\h00, \hC3} }

(* BRK at pc, and RTI where the break vector points: at 0x1234, or where   *)
(* it points with the BRK loaded over one of its bytes                      *)
BreakReturnPrograms ==
    { Program(\hF000, Regs(\h11, \h22, \h33, s, p, pc),
              At(<<\h40>>, \h1234) \o At(<<\h40>>, \h0034) \o At(<<\h40>>, \h1200)
                \o At(<<\h00>>, pc)) :
        pc \in {\h0200, \h02FF, \hFFFD, \hFFFE, \hFFFF}, s \in {\hFF, \h02, \h01, \h00},
        p \in {\h00, \hFF, \hC3} }

Programs ==
    CallPrograms \cup StatusPrograms \cup BreakPrograms \cup VectorPrograms
        \cup StackPrograms \cup BreakReturnPrograms

Init ==
    \E g \in Programs :
        InitWith(g.rom, Wired, Scenery \o Monitor(g.rom, g.r) \o g.images)

Next == Step \/ Reset

Spec == Init /\ [][Next]_vars

(* The arithmetic and compare instructions, immediate and absolute: the     *)
(* register value (in A, X and Y) and the operand byte range over AluBytes, *)
(* which holds the ends of the byte range, bytes around the sign bit and    *)
(* the decimal carries, and bytes that are not valid BCD; the flags range   *)
(* over C and D, with the other flags clear and set.                        *)
AluBytes ==
    { \h00, \h01, \h09, \h0A, \h0F, \h10, \h19, \h27, \h45, \h49, \h50, \h55,
      \h72, \h7F, \h80, \h81, \h90, \h98, \h99, \h9A, \hA0, \hD0, \hF0, \hFF }

AluFlags == { \h00, \hC3, \h48, \hCD }

(* ADC, SBC, CMP, CPX and CPY: immediate, then absolute *)
AluImmediates == { \h69, \hE9, \hC9, \hE0, \hC0 }
AluAbsolutes == { \h6D, \hED, \hCD, \hEC, \hCC }

InitAlu ==
    \E a \in AluBytes, m \in AluBytes, p \in AluFlags,
       op \in AluImmediates \cup AluAbsolutes :
        InitWith(\hF000, Wired,
                 Monitor(\hF000, Regs(a, a, a, \hFF, p, \h0200))
                 \o At(<<m>>, \h0340)
                 \o At(IF op \in AluImmediates THEN <<op, m>> ELSE <<op, \h40, \h03>>,
                       \h0200))

SpecAlu == InitAlu /\ [][Step]_vars

(* A Memory object and its owner: the machine as constructed, then calls    *)
(* to write, read and map_io.                                               *)
MemRoms == { \hF000, \hD000 }

InitMem == \E rs \in MemRoms : InitWith(rs, Wired, Scenery)

NextMem == MemWrite \/ MemRead \/ MemMapIo \/ MemLoad

SpecMem == InitMem /\ [][NextMem]_vars

----------------------------------------------------------------------------
(* emulator.py: A1E.run(), statement by statement; `at` names the statement *)
(* that runs next.  Time is counted in ticks of the host clock, FRAME_TIME  *)
(* (1.0 / FPS seconds) being TicksPerFrame ticks.                           *)
MaxFrames == 3          \* frames of A1E.run() in one run
TicksPerFrame == 2      \* ticks of the host clock in FRAME_TIME
MaxKeySteps == 10       \* instructions of a program that reads the keyboard
MaxPending == 2         \* bytes waiting on sys.stdin
MaxChars == 85          \* characters of a text a program prints

FRAME_TIME == TicksPerFrame

KeyboardInterrupt == [type |-> "KeyboardInterrupt", a |-> 0, b |-> 0]

(* the statements inside the try block of A1E.run() *)
InTry == {"frame", "poll", "step", "frame_end"}

(* poll() latching the byte as the host sent it *)
poll_raw(cpu, pending) ==
    IF pending = <<>> THEN cpu
    ELSE [cpu EXCEPT !.key_pressed = Head(pending), !.kbdcr = BitOr(@, \h80)]

(* keyboard.py: Keyboard.poll.  pending holds the bytes the host typed that *)
(* were not taken yet; select() finds sys.stdin readable when there is one. *)
poll(cpu, pending) ==
    IF pending = <<>> THEN cpu
    ELSE LET key == BitAnd(Head(pending), \h7F)
         IN  [cpu EXCEPT !.key_pressed = IF key = \h0A THEN \h0D ELSE key,
                         !.kbdcr = BitOr(@, \h80)]

(* video = Video(); keyboard = Keyboard(); the three map_io calls;          *)
(* cpu = CPU6502(self.mem), whose constructor resets; cpu.reset();          *)
(* emu_time = time.perf_counter()                                           *)
Setup ==
    /\ at \in {"Video", "Keyboard", "map_video", "map_kbd_data", "map_kbd_ctrl",
               "CPU6502", "reset", "try"}
    /\ at' = CASE at = "Video" -> "Keyboard"
               [] at = "Keyboard" -> "map_video"
               [] at = "map_video" -> "map_kbd_data"
               [] at = "map_kbd_data" -> "map_kbd_ctrl"
               [] at = "map_kbd_ctrl" -> "CPU6502"
               [] at = "CPU6502" -> "reset"
               [] at = "reset" -> "try"
               [] at = "try" -> "frame"
    /\ \E cpu \in { CASE at = "Video" -> [Machine EXCEPT !.col = 0]
                      [] at = "Keyboard" ->
                           [Machine EXCEPT !.key_pressed = 0, !.kbdcr = 0]
                      [] at \in {"CPU6502", "reset"} -> reset(Machine)
                      [] OTHER -> Machine } : Install(cpu)
    /\ _io_handlers' =
           CASE at = "map_video" -> map_io(_io_handlers, VIDEO_ADDR, "None", "write_char")
             [] at = "map_kbd_data" -> map_io(_io_handlers, KBD_DATA, "read_char", "None")
             [] at = "map_kbd_ctrl" -> map_io(_io_handlers, KBD_CTRL, "read_status", "None")
             [] OTHER -> _io_handlers
    /\ _old_settings' = IF at = "Keyboard" THEN tty ELSE _old_settings
    /\ tty' = IF at = "Keyboard" THEN "cbreak" ELSE tty
    /\ emu_time' = IF at = "try" THEN clock ELSE emu_time
    /\ resets' = IF at \in {"CPU6502", "reset"} THEN resets + 1 ELSE resets
    /\ UNCHANGED <<_rom_start, stdin, last, prev, written, steps, calls, cycles,
                   now, clock, slept, raised, frames>>
    /\ UNCHANGED status

(* a frame that starts with step() *)
FrameStart_direct ==
    /\ at = "frame"
    /\ frames < MaxFrames
    /\ cycles' = 0
    /\ at' = "step"
    /\ UNCHANGED <<A, X, Y, SP, P, PC, data, _io_handlers, _rom_start,
                   _key_pressed, _kbdcr, stdin, _col, stdout, io_log, last, prev,
                   written, steps, resets, calls, emu_time, now, clock, slept,
                   tty, _old_settings, raised, frames>>
    /\ UNCHANGED status

(* while True: cycles = 0, and the first test of the inner loop *)
FrameStart ==
    /\ at = "frame"
    /\ frames < MaxFrames
    /\ cycles' = 0
    /\ at' = IF 0 < CYCLES_PER_FRAME THEN "poll" ELSE "frame_end"
    /\ UNCHANGED <<A, X, Y, SP, P, PC, data, _io_handlers, _rom_start,
                   _key_pressed, _kbdcr, stdin, _col, stdout, io_log, last, prev,
                   written, steps, resets, calls, emu_time, now, clock, slept,
                   tty, _old_settings, raised, frames>>
    /\ UNCHANGED status

(* keyboard.poll() *)
Poll ==
    /\ at = "poll"
    /\ \E cpu \in {poll(Machine, stdin)} :
           /\ Install(cpu)
           /\ last' = CallRec("poll", 0, IF stdin = <<>> THEN -1 ELSE Head(stdin), cpu)
    /\ stdin' = IF stdin = <<>> THEN stdin ELSE Tail(stdin)
    /\ prev' = last
    /\ at' = "step"
    /\ UNCHANGED <<_io_handlers, _rom_start, written, steps, resets, calls,
                   cycles, emu_time, now, clock, slept, tty, _old_settings,
                   raised, frames>>
    /\ UNCHANGED status


(* the inner loop going on while cycles <= CYCLES_PER_FRAME *)
RunStep_le ==
    /\ at = "step"
    /\ \E cpu \in {step(Machine)} :
           /\ Install(cpu)
           /\ last' = CallRec("step", PC, Peek(data, PC), cpu)
           /\ IF cpu.exc # NoExc
              THEN /\ raised' = cpu.exc
                   /\ at' = "finally"
                   /\ cycles' = cycles
              ELSE /\ raised' = raised
                   /\ cycles' = cycles + cpu.ret
                   /\ at' = IF cycles + cpu.ret <= CYCLES_PER_FRAME
                            THEN "poll" ELSE "frame_end"
    /\ prev' = last
    /\ steps' = steps + 1
    /\ UNCHANGED <<_io_handlers, _rom_start, stdin, written, resets, calls,
                   emu_time, now, clock, slept, tty, _old_settings, frames>>
    /\ UNCHANGED status

(* cycles += cpu.step(), and the next test of the inner loop; an exception  *)
(* step() raises leaves the try block for its finally clause                *)
RunStep ==
    /\ at = "step"
    /\ \E cpu \in {step(Machine)} :
           /\ Install(cpu)
           /\ last' = CallRec("step", PC, Peek(data, PC), cpu)
           /\ IF cpu.exc # NoExc
              THEN /\ raised' = cpu.exc
                   /\ at' = "finally"
                   /\ cycles' = cycles
              ELSE /\ raised' = raised
                   /\ cycles' = cycles + cpu.ret
                   /\ at' = IF cycles + cpu.ret < CYCLES_PER_FRAME
                            THEN "poll" ELSE "frame_end"
    /\ prev' = last
    /\ steps' = steps + 1
    /\ UNCHANGED <<_io_handlers, _rom_start, stdin, written, resets, calls,
                   emu_time, now, clock, slept, tty, _old_settings, frames>>
    /\ UNCHANGED status

(* the ticks the host clock may have advanced while a frame was emulated:   *)
(* none, a frame's time, or a stall of more than two frames                 *)
FrameDurations == {0, FRAME_TIME, 2 * FRAME_TIME + 1}

(* a frame end that takes the clock for emu_time when it fell behind *)
FrameEnd_resync ==
    /\ at = "frame_end"
    /\ \E d \in FrameDurations :
           /\ now' = clock + d
           /\ IF emu_time + FRAME_TIME > now'
              THEN /\ emu_time' = emu_time + FRAME_TIME
                   /\ slept' = <<emu_time' - now'>>
                   /\ clock' = now' + (emu_time' - now')
              ELSE /\ emu_time' = now'
                   /\ slept' = <<>>
                   /\ clock' = now'
    /\ frames' = frames + 1
    /\ at' = "frame"
    /\ UNCHANGED <<A, X, Y, SP, P, PC, data, _io_handlers, _rom_start,
                   _key_pressed, _kbdcr, stdin, _col, stdout, io_log, last, prev,
                   written, steps, resets, calls, cycles, tty, _old_settings,
                   raised>>
    /\ UNCHANGED status

(* emu_time += FRAME_TIME; now = time.perf_counter();                       *)
(* if emu_time > now: time.sleep(emu_time - now)                            *)
FrameEnd ==
    /\ at = "frame_end"
    /\ \E d \in FrameDurations :
           /\ emu_time' = emu_time + FRAME_TIME
           /\ now' = clock + d
           /\ IF emu_time' > now'
              THEN /\ slept' = <<emu_time' - now'>>
                   /\ clock' = now' + (emu_time' - now')
              ELSE /\ slept' = <<>>
                   /\ clock' = now'
    /\ frames' = frames + 1
    /\ at' = "frame"
    /\ UNCHANGED <<A, X, Y, SP, P, PC, data, _io_handlers, _rom_start,
                   _key_pressed, _kbdcr, stdin, _col, stdout, io_log, last, prev,
                   written, steps, resets, calls, cycles, tty, _old_settings,
                   raised>>
    /\ UNCHANGED status

(* the statements of main() before emu.run() *)
InMain == {"load_monitor", "load_program"}

(* The host interrupts the process (SIGINT): Python raises                  *)
(* KeyboardInterrupt before the statement that would run next.  Inside the  *)
(* try block it is handled by the finally clause; before the try statement  *)
(* it leaves run() at once (after cpu.reset() it comes before or after the  *)
(* try statement is entered); before emu.run() nothing in main() handles    *)
(* it and the interpreter ends as by SIGINT.  The interrupt arrives during  *)
(* the set-up or one of the first MaxSteps instructions.                    *)
Interrupt ==
    /\ at \notin {"finally", "returned", "exit"}
    /\ steps < MaxSteps
    /\ raised' = KeyboardInterrupt
    /\ at' \in IF at \in InTry THEN {"finally"}
               ELSE IF at = "try" THEN {"finally", "returned"}
               ELSE IF at \in InMain THEN {"exit"}
               ELSE {"returned"}
    /\ status' = IF at \in InMain THEN 130 ELSE status
    /\ UNCHANGED <<A, X, Y, SP, P, PC, data, _io_handlers, _rom_start,
                   _key_pressed, _kbdcr, stdin, _col, stdout, io_log, last, prev,
                   written, steps, resets, calls, cycles, emu_time, now, clock,
                   slept, tty, _old_settings, frames>>

(* finally: keyboard.cleanup(), which restores the terminal settings that   *)
(* Keyboard() saved; the exception then reaches main()                      *)
Finally ==
    /\ at = "finally"
    /\ tty' = _old_settings
    /\ at' = "returned"
    /\ UNCHANGED <<A, X, Y, SP, P, PC, data, _io_handlers, _rom_start,
                   _key_pressed, _kbdcr, stdin, _col, stdout, io_log, last, prev,
                   written, steps, resets, calls, cycles, emu_time, now, clock,
                   slept, _old_settings, raised, frames>>
    /\ UNCHANGED status

(* the bytes a host types *)
KeyBytes == {\h41, \h0A, \hE1}

(* the host types a byte: it waits on sys.stdin until poll() takes it *)
HostKey ==
    /\ Len(stdin) < MaxPending
    /\ \E b \in KeyBytes : stdin' = Append(stdin, b)
    /\ UNCHANGED <<A, X, Y, SP, P, PC, data, _io_handlers, _rom_start,
                   _key_pressed, _kbdcr, _col, stdout, io_log, last, prev,
                   written, steps, resets, calls>>
    /\ UNCHANGED runVars

(* main() up to emu.run(): A1E(rom_start) and load_data of the images, the  *)
(* terminal as the shell left it, keys the bytes typed ahead                *)
InitRun(rom_start, images, keys) ==
    /\ _rom_start = rom_start
    /\ _io_handlers = NoHandlers
    /\ stdin = keys
    /\ at = "Video"
    /\ cycles = 0 /\ emu_time = 0 /\ now = 0 /\ clock = 0 /\ slept = <<>>
    /\ tty = "cooked" /\ _old_settings = "cooked"
    /\ raised = NoExc
    /\ frames = 0
    /\ status = -1
    /\ \E cpu \in {Loaded_images(Blank, images)} :
           /\ A = cpu.A /\ X = cpu.X /\ Y = cpu.Y
           /\ SP = cpu.SP /\ P = cpu.P /\ PC = cpu.PC
           /\ data = cpu.data
           /\ _key_pressed = cpu.key_pressed /\ _kbdcr = cpu.kbdcr
           /\ _col = cpu.col /\ stdout = cpu.stdout
           /\ io_log = cpu.io_log
    /\ last = [op |-> "init", A |-> 0, X |-> 0, Y |-> 0, SP |-> 0, P |-> 0,
               PC |-> 0, addr |-> 0, val |-> 0, ret |-> 0, exc |-> NoExc]
    /\ prev = last
    /\ written = [k \in {} |-> 0]
    /\ steps = 0
    /\ resets = 0
    /\ calls = 0

(* Programs that use the keyboard, at rom_start:                            *)
(*   echo:    L: LDA $D011 ; BPL L ; LDA $D010 ; STA $D012 ; JMP L          *)
(*   reader:  L: LDA $D010 ; LDA $D011 ; LDA $D011 ; JMP L                  *)
(*   watcher: L: LDA $D011 ; LDA $D011 ; JMP L                              *)
(*   idle:    L: NOP ; JMP L                                                *)
(*   fetcher: JMP $D00F, to the code loaded over the keyboard registers     *)
KeyPrograms ==
    { <<\hAD, \h11, \hD0, \h10, \hFB, \hAD, \h10, \hD0, \h8D, \h12, \hD0,
        \h4C, \h00, \hF0>>,
      <<\hAD, \h10, \hD0, \hAD, \h11, \hD0, \hAD, \h11, \hD0, \h4C, \h00, \hF0>>,
      <<\hAD, \h11, \hD0, \hAD, \h11, \hD0, \h4C, \h00, \hF0>> ,
      <<\hEA, \h4C, \h00, \hF0>>,
      <<\h4C, \h0F, \hD0>> }

(* code in the memory array under the I/O addresses:                        *)
(*     0xD00F: LDA #$55 (the operand at 0xD010) ; 0xD011: NOP ;             *)
(*     0xD012: JMP $F000                                                    *)
HookCode == At(<<\hA9, \h55, \hEA, \h4C, \h00, \hF0>>, \hD00F)

InitKeys ==
    \E g \in KeyPrograms : InitRun(\hF000, At(g, \hF000) \o HookCode, <<>>)

KeyStep == steps < MaxKeySteps /\ RunStep

NextKeys == Setup \/ FrameStart \/ HostKey \/ Poll \/ KeyStep

SpecKeys == InitKeys /\ [][NextKeys]_vars

(* A program that prints a text, at rom_start, the text at 0xF100:          *)
(*     L: LDA $F100,X ; STA $D012 ; INX ; JMP L                             *)
(* The texts are MaxChars 'A's, and the same with one other byte put in     *)
(* at the start of a line, at its end, or after the line was wrapped.       *)
Printer == <<\hBD, \h00, \hF1, \h8D, \h12, \hD0, \hE8, \h4C, \h00, \hF0>>

TextBytes == {\h0D, \h0A, \h00, \h8D, \h8A, \hC1, \h80}
TextPlaces == {1, SCREEN_COLS, SCREEN_COLS + 1}

Texts ==
    { [i \in 1..MaxChars |-> IF i = k THEN b ELSE \h41] :
        b \in TextBytes \cup {\h41}, k \in TextPlaces }

InitVideo ==
    \E text \in Texts :
        InitRun(\hF000, At(Printer, \hF000) \o At(text, \hF100), <<>>)

TextStep == steps < 4 * MaxChars /\ RunStep

NextVideo == Setup \/ FrameStart \/ Poll \/ TextStep

SpecVideo == InitVideo /\ [][NextVideo]_vars

(* Programs for whole frames, at rom_start, with the bytes typed ahead:     *)
(*   NOP ; NOP ; L: JMP L         a frame of 4 + 3 * 5554 = 16666 cycles    *)
(*   L: JMP L                     a frame of 3 * 5556 = 16668 cycles        *)
(*   NOP ; JMP L ; L: BRK         with the IRQ vector at L: a frame of      *)
(*                                5 + 7 * 2381 = 16672 cycles               *)
(*   0x02                         an opcode without a handler               *)
RunPrograms ==
    { << At(<<\hEA, \hEA, \h4C, \h02, \hF0>>, \hF000), <<>> >>,
      << At(<<\h4C, \h00, \hF0>>, \hF000), <<>> >>,
      << At(<<\hEA, \h4C, \h04, \hF0, \h00>>, \hF000) \o At(<<\h04, \hF0>>, \hFFFE),
         <<\h41>> >>,
      << At(<<\h02>>, \hF000), <<>> >> }

InitLoop == \E g \in RunPrograms : InitRun(\hF000, g[1], g[2])

NextRun == Setup \/ FrameStart \/ Poll \/ RunStep \/ FrameEnd \/ Interrupt \/ Finally

SpecRun == InitLoop /\ [][NextRun]_vars

(* The shifts and rotates, on the accumulator, in zero page and absolute,X: *)
(* the accumulator ranges over every byte and the memory operand holds its  *)
(* complement, with the carry (and the other flags) clear and set.          *)
ShiftFlags == { \h00, \hC3 }
ShiftAccumulators == { \h0A, \h4A, \h2A, \h6A }
ShiftZeroPages == { \h06, \h46, \h26, \h66 }
ShiftAbsolutes == { \h1E, \h5E, \h3E, \h7E }

InitShift ==
    \E v \in 0..\hFF, p \in ShiftFlags,
       op \in ShiftAccumulators \cup ShiftZeroPages \cup ShiftAbsolutes :
        InitWith(\hF000, Wired,
                 Monitor(\hF000, Regs(v, \h10, \h33, \hFF, p, \h0200))
                 \o At(<<\hFF - v>>, IF op \in ShiftZeroPages THEN \h0040 ELSE \h0340)
                 \o At(IF op \in ShiftAccumulators THEN <<op>>
                       ELSE IF op \in ShiftZeroPages THEN <<op, \h40>>
                       ELSE <<op, \h30, \h03>>,
                       \h0200))

SpecShift == InitShift /\ [][Step]_vars

(* A program that stores to and loads from the three I/O addresses, for the *)
(* byte v it stores to the display; the array holds 0x55, 0xEA and 0x77     *)
(* under them:                                                              *)
(*     LDA #v ; STA $D012 ; LDA $D012 ; STA $D010 ; STA $D011 ;             *)
(*     LDA $D010 ; LDA $D011 ; JMP $F00E                                    *)
IoPrograms ==
    { <<\hA9, v, \h8D, \h12, \hD0, \hAD, \h12, \hD0, \h8D, \h10, \hD0,
        \h8D, \h11, \hD0, \hAD, \h10, \hD0, \hAD, \h11, \hD0, \h4C, \h0E, \hF0>> :
        v \in {\h00, \hC1, \h8D} }

InitIo ==
    \E g \in IoPrograms :
        InitRun(\hF000, At(g, \hF000) \o At(<<\h55, \hEA, \h77>>, KBD_DATA), <<>>)

SpecIo == InitIo /\ [][NextKeys]_vars

----------------------------------------------------------------------------
(* main(): the images named on the command line are loaded, emu.run() is    *)
(* called, and the process exits.                                           *)

OSError == [type |-> "OSError", a |-> 0, b |-> 0]

(* what a path of the command line stands for: no such argument, a file     *)
(* open() cannot read, or the bytes of the file                             *)
Absent == [kind |-> "absent", bytes |-> <<>>]
Unreadable == [kind |-> "unreadable", bytes |-> <<>>]
File(bytes) == [kind |-> "file", bytes |-> bytes]

(* NOP and a jump back to it; an opcode with no handler *)
MainFiles ==
    { Absent, Unreadable, File(<<\hEA, \h4C, \h00, \hF0>>), File(<<\h02>>) }

(* --monitor_start and --program_start *)
MonitorStarts == { \hF000, \hFFFE }
ProgramStarts == { \h2000, \hFFFF }

(* sys.exit(main()) with a main() that handles no exception of emu.run() *)
MainExit_unhandled ==
    /\ at = "returned"
    /\ at' = "exit"
    /\ status' = IF raised = NoExc THEN 0 ELSE 1
    /\ UNCHANGED <<A, X, Y, SP, P, PC, data, _io_handlers, _rom_start,
                   _key_pressed, _kbdcr, stdin, _col, stdout, io_log, last, prev,
                   written, steps, resets, calls, cycles, emu_time, now, clock,
                   slept, tty, _old_settings, raised, frames>>

(* if args.monitor_rom: load_data(emu, args.monitor_rom, args.monitor_start) *)
(* if args.program_data: load_data(emu, args.program_data,                  *)
(* args.program_start); an exception of open() or of Memory.load_data is    *)
(* handled nowhere: the interpreter prints the traceback to stderr and      *)
(* exits with status 1                                                      *)
MainLoad ==
    /\ at \in InMain
    /\ \E f \in MainFiles :
       \E start \in IF at = "load_monitor" THEN {_rom_start} ELSE ProgramStarts :
       \E cpu \in { CASE f.kind = "absent" -> Machine
                      [] f.kind = "unreadable" -> [Machine EXCEPT !.exc = OSError]
                      [] OTHER -> load_data(Machine, f.bytes, start) } :
           /\ Install(cpu)
           /\ last' = CallRec("load_data", start, Len(f.bytes), cpu)
           /\ raised' = cpu.exc
           /\ at' = IF cpu.exc # NoExc THEN "exit"
                    ELSE IF at = "load_monitor" THEN "load_program" ELSE "Video"
           /\ status' = IF cpu.exc # NoExc THEN 1 ELSE status
    /\ prev' = last
    /\ UNCHANGED <<_io_handlers, _rom_start, stdin, written, steps, resets, calls,
                   cycles, emu_time, now, clock, slept, tty, _old_settings, frames>>

(* the character codes of '\n[EXIT]\n' and of 'Error: ' *)
ExitLine == <<10, 91, 69, 88, 73, 84, 93, 10>>
ErrorLine == <<69, 114, 114, 111, 114, 58, 32>>

(* emu.run() has ended with an exception: except KeyboardInterrupt prints   *)
(* '\n[EXIT]', except Exception prints 'Error: ' and the text of the        *)
(* exception (the text is not kept here); return 0 and sys.exit(main())     *)
MainExit ==
    /\ at = "returned"
    /\ at' = "exit"
    /\ stdout' = stdout \o (IF raised = KeyboardInterrupt THEN ExitLine
                            ELSE ErrorLine \o <<10>>)
    /\ status' = 0
    /\ UNCHANGED <<A, X, Y, SP, P, PC, data, _io_handlers, _rom_start,
                   _key_pressed, _kbdcr, stdin, _col, io_log, last, prev,
                   written, steps, resets, calls, cycles, emu_time, now, clock,
                   slept, tty, _old_settings, raised, frames>>

(* main() after parse_args() and A1E(args.monitor_start) *)
InitMain ==
    \E rs \in MonitorStarts :
        /\ _rom_start = rs
        /\ _io_handlers = NoHandlers
        /\ stdin = <<>>
        /\ at = "load_monitor"
        /\ cycles = 0 /\ emu_time = 0 /\ now = 0 /\ clock = 0 /\ slept = <<>>
        /\ tty = "cooked" /\ _old_settings = "cooked"
        /\ raised = NoExc
        /\ frames = 0
        /\ status = -1
        /\ A = Blank.A /\ X = Blank.X /\ Y = Blank.Y
        /\ SP = Blank.SP /\ P = Blank.P /\ PC = Blank.PC
        /\ data = Blank.data
        /\ _key_pressed = Blank.key_pressed /\ _kbdcr = Blank.kbdcr
        /\ _col = Blank.col /\ stdout = Blank.stdout
        /\ io_log = Blank.io_log
        /\ last = [op |-> "init", A |-> 0, X |-> 0, Y |-> 0, SP |-> 0, P |-> 0,
                   PC |-> 0, addr |-> 0, val |-> 0, ret |-> 0, exc |-> NoExc]
        /\ prev = last
        /\ written = [k \in {} |-> 0]
        /\ steps = 0
        /\ resets = 0
        /\ calls = 0

MainStep == steps < MaxSteps /\ RunStep

NextMain ==
    MainLoad \/ Setup \/ FrameStart \/ Poll \/ MainStep \/ Interrupt \/ Finally
        \/ MainExit

SpecMain == InitMain /\ [][NextMain]_vars

----------------------------------------------------------------------------
(* Properties.                                                              *)

Lo(w) == w % \h100
Hi(w) == (w \div \h100) % \h100

(* the transition is a step() call *)
IsStep == steps' = steps + 1
(* the transition is a step() call that executes the opcode byte op *)
StepOf(op) == IsStep /\ Peek(data, PC) = op
(* the transition is a reset() call *)
IsReset == resets' = resets + 1
(* the transition is a call to the Memory object *)
IsCall(op) == calls' = calls + 1 /\ last'.op = op

(* the stack page 0x0100..0x01FF lies below the ROM window *)
StackInRam == _rom_start > \h01FF

(* the address has no reader and no writer hook *)
NoHook(a) == a \notin DOMAIN _io_handlers \/ _io_handlers[a] = <<"None", "None">>

(* every byte of the memory array outside the set keeps its value *)
SameBytesOutside(S) ==
    \A a \in ((DOMAIN data) \cup (DOMAIN data')) \ S : Peek(data', a) = Peek(data, a)

(* C1: in every state reached from reset() by step() calls, whatever the   *)
(* memory holds, A, X, Y and SP are in 0..255, PC is in 0..65535, P is in  *)
(* 0..255 and bit U (0x20) of P is set.                                     *)
RegistersInRange ==
    /\ A \in 0..255 /\ X \in 0..255 /\ Y \in 0..255 /\ SP \in 0..255
    /\ PC \in 0..65535
    /\ P \in 0..255
    /\ BitAnd(P, FLAG_U) # 0

(* C1 witness: a PLP has just pulled a byte whose U bit is clear and whose *)
(* B bit is set, with SP wrapping from 0xFF to 0x00.                        *)
RegistersInRangeWitness ==
    /\ steps = MonitorSteps + 1
    /\ last.op = "step" /\ last.val = \h28 /\ last.SP = \hFF
    /\ SP = 0
    /\ BitAnd(Peek(data, \h100), FLAG_U) = 0
    /\ BitAnd(Peek(data, \h100), FLAG_B) # 0

(* C2: a read(a) of an address below rom_start that has no hook returns    *)
(* v & 0xFF, where v is the value of the last write(a, v), whatever calls   *)
(* on other addresses were made before the write or between the write and   *)
(* the read (written holds v exactly when the write was made and no map_io  *)
(* on the address followed it).                                             *)
WriteThenRead ==
    [][ \A a \in MemAddrs :
          (/\ IsCall("read") /\ last'.addr = a
           /\ a % \h10000 < _rom_start
           /\ NoHook(a % \h10000)
           /\ a % \h10000 \in DOMAIN written)
          => last'.ret = written[a % \h10000] % \h100 ]_vars

(* C2 witness: write(0x0010, 0x1C1), then a call on another address, then  *)
(* read(0x10010), which is the same address, returned 0xC1.                 *)
WriteThenReadWitness ==
    /\ last.op = "read" /\ last.addr = \h10010
    /\ prev.op # "read" /\ prev.addr % \h10000 # \h0010
    /\ NoHook(\h0010)
    /\ \h0010 \in DOMAIN written /\ written[\h0010] = \h1C1
    /\ last.ret = \hC1

(* C3: a write(a, v) with rom_start <= (a & 0xFFFF) leaves the memory array *)
(* as it was and calls no writer hook (nothing is printed, the column does  *)
(* not move), even when a writer is registered at the address, and a        *)
(* read(a) after it returns what a read(a) before it would have returned.   *)
RomWriteIgnored ==
    [][ \A a \in MemAddrs :
          (IsCall("write") /\ last'.addr = a /\ _rom_start <= a % \h10000)
          => /\ data' = data
             /\ io_log' = io_log /\ stdout' = stdout /\ _col' = _col
             /\ (read(Machine, a).val)' = read(Machine, a).val ]_vars

(* C3 witness: a write of a printable character to an address in the ROM   *)
(* window where a writer hook is registered.                                *)
RomWriteIgnoredWitness ==
    /\ last.op = "write" /\ last.val = \h41
    /\ _rom_start <= last.addr % \h10000
    /\ last.addr % \h10000 \in DOMAIN _io_handlers
    /\ _io_handlers[last.addr % \h10000][2] = "write_char"
    /\ Peek(data, last.addr % \h10000) # \h41

(* C4: no step() changes a byte of the memory array at an address in       *)
(* [rom_start, 0x10000), and with rom_start <= 0xFFFC the bytes at 0xFFFC   *)
(* and 0xFFFD hold the low and high byte of rom_start after every step.     *)
RomNeverWritten ==
    [][ IsStep =>
          /\ SameBytesOutside(0..(_rom_start - 1))
          /\ (_rom_start <= \hFFFC =>
                 /\ Peek(data', \hFFFC) = Lo(_rom_start)
                 /\ Peek(data', \hFFFD) = Hi(_rom_start)) ]_vars

(* C4 witness: a PHA with the stack pointer in the ROM window has pushed a *)
(* value that differs from the byte in the stack slot.                      *)
RomNeverWrittenWitness ==
    /\ steps = MonitorSteps + 1
    /\ last.op = "step" /\ last.val = \h48
    /\ _rom_start <= \h100 + last.SP
    /\ SP = (last.SP - 1) % \h100
    /\ Peek(data, \h100 + last.SP) # last.A

(* C5: a reset() from any state leaves A = X = Y = 0, SP = 0xFF, P = 0x20, *)
(* the low and high byte of rom_start at 0xFFFC and 0xFFFD, PC equal to the *)
(* little-endian word there, which is rom_start (a 16-bit address), and     *)
(* every other byte of the memory array as it was.                          *)
ResetState ==
    [][ IsReset =>
          /\ A' = 0 /\ X' = 0 /\ Y' = 0 /\ SP' = \hFF /\ P' = \h20
          /\ Peek(data', \hFFFC) = Lo(_rom_start)
          /\ Peek(data', \hFFFD) = Hi(_rom_start)
          /\ PC' = Peek(data', \hFFFC) + \h100 * Peek(data', \hFFFD)
          /\ PC' = _rom_start
          /\ SameBytesOutside({\hFFFC, \hFFFD}) ]_vars

(* C5 witness: a reset() right after the program stored 0x55 over the low  *)
(* byte of a reset vector that lies in RAM.                                 *)
ResetStateWitness ==
    /\ last.op = "reset"
    /\ last.A = \h55 /\ last.SP = \h80 /\ last.P # \h20 /\ last.PC # _rom_start
    /\ prev.op = "step" /\ prev.val = \h8D /\ prev.PC = \h0200
    /\ _rom_start = \hFFFE
    /\ Lo(_rom_start) # \h55
    /\ Peek(data, \hFFFC) = Lo(_rom_start)

(* C6: a reset() that follows a reset() changes no register and no byte of *)
(* the memory array.                                                        *)
ResetIdempotent ==
    [][ (IsReset /\ last.op = "reset") =>
          /\ <<A', X', Y', SP', P', PC'>> = <<A, X, Y, SP, P, PC>>
          /\ data' = data ]_vars

(* C6 witness: two reset() calls in a row, the first from a state in which *)
(* no register had its reset value.                                         *)
ResetIdempotentWitness ==
    /\ last.op = "reset" /\ prev.op = "reset"
    /\ prev.A # 0 /\ prev.X # 0 /\ prev.Y # 0
    /\ prev.SP # \hFF /\ prev.P # \h20 /\ prev.PC # _rom_start

(* the branch instruction named is taken with status p *)
Taken(name, p) ==
    \/ name = "BPL" /\ BitAnd(p, FLAG_N) = 0
    \/ name = "BMI" /\ BitAnd(p, FLAG_N) # 0
    \/ name = "BVC" /\ BitAnd(p, FLAG_V) = 0
    \/ name = "BVS" /\ BitAnd(p, FLAG_V) # 0
    \/ name = "BCC" /\ BitAnd(p, FLAG_C) = 0
    \/ name = "BCS" /\ BitAnd(p, FLAG_C) # 0
    \/ name = "BNE" /\ BitAnd(p, FLAG_Z) = 0
    \/ name = "BEQ" /\ BitAnd(p, FLAG_Z) # 0

(* what the handler of the table entry does to the machine when PC has     *)
(* been advanced by the entry's length and the operand bytes are those at   *)
(* (PC + 1) mod 65536 and (PC + 2) mod 65536                                *)
Executed(entry) ==
    Call(entry[2], [Machine EXCEPT !.PC = (PC + entry[1]) % \h10000], entry[3],
         [i \in 1..(entry[1] - 1) |-> Peek(data, (PC + i) % \h10000)])

(* C7: a step() on a defined opcode that is not JMP, JSR, RTS, RTI, BRK or *)
(* a taken branch leaves PC = (PC_before + length) mod 65536, and leaves    *)
(* the registers, the memory array and the cycle count that the opcode's    *)
(* handler produces once, from PC advanced, for the operand bytes at        *)
(* (PC_before + 1) mod 65536 and (PC_before + 2) mod 65536.                 *)
StepAdvancesPC ==
    [][ \A entry \in {opcode_table[Peek(data, PC) + 1]} :
          (/\ IsStep
           /\ entry[2] \notin {"illegal", "JMP", "JSR", "RTS", "RTI", "BRK"}
           /\ ~Taken(entry[2], P))
          => /\ PC' = (PC + entry[1]) % \h10000
             /\ \E c \in {Executed(entry)} :
                    /\ <<A', X', Y', SP', P'>> = <<c.A, c.X, c.Y, c.SP, c.P>>
                    /\ data' = c.data
                    /\ last'.ret = c.ret ]_vars

(* C7 witness: LDA absolute at 0xFFFF, whose operand bytes are at 0x0000   *)
(* and 0x0001, has left PC = 0x0002 and the byte at the operand address in  *)
(* A.                                                                       *)
StepAdvancesPCWitness ==
    /\ steps = MonitorSteps + 1
    /\ last.op = "step" /\ last.val = \hAD /\ last.PC = \hFFFF
    /\ PC = \h0002
    /\ Peek(data, 0) + \h100 * Peek(data, 1) = \h0180
    /\ A = Peek(data, \h0180) /\ A # last.A

(* C8: with the stack page in RAM, a JSR at p with stack pointer s writes  *)
(* the high byte of (p + 2) mod 65536 at 0x0100+s and its low byte at       *)
(* 0x0100+((s-1) mod 256), leaves SP = (s - 2) mod 256 and PC = the target, *)
(* and returns 6; an RTS executed right after it (the byte at the target is *)
(* 0x60 then) leaves SP = s and PC = (p + 3) mod 65536.                     *)
JsrRtsRoundTrip ==
    [][ /\ (StepOf(\h20) /\ StackInRam) =>
              /\ Peek(data', \h100 + SP) = Hi((PC + 2) % \h10000)
              /\ Peek(data', \h100 + ((SP - 1) % \h100)) = Lo((PC + 2) % \h10000)
              /\ SP' = (SP - 2) % \h100
              /\ PC' = Peek(data, (PC + 1) % \h10000)
                         + \h100 * Peek(data, (PC + 2) % \h10000)
              /\ last'.ret = 6
        /\ (StepOf(\h60) /\ StackInRam /\ last.op = "step" /\ last.val = \h20) =>
              /\ SP' = last.SP
              /\ PC' = (last.PC + 3) % \h10000 ]_vars

(* C8 witness: JSR at 0xFFFE with SP = 0x00 and the RTS at the target have *)
(* run: the return address 0x0000 went to 0x0100 and 0x01FF, and PC is      *)
(* 0x0001.                                                                  *)
JsrRtsRoundTripWitness ==
    /\ last.op = "step" /\ last.val = \h60 /\ last.SP = \hFE
    /\ prev.op = "step" /\ prev.val = \h20 /\ prev.PC = \hFFFE /\ prev.SP = \h00
    /\ SP = \h00 /\ PC = \h0001

(* C9: with the stack page in RAM, PHP writes P | 0x30 at 0x0100+SP, and a *)
(* PLP executed right after it leaves every bit of P other than B as it was *)
(* before the PHP, B clear and U set, and SP as it was before the PHP.      *)
PhpPlpRoundTrip ==
    [][ /\ (StepOf(\h08) /\ StackInRam) =>
              Peek(data', \h100 + SP) = BitOr(P, \h30)
        /\ (StepOf(\h28) /\ StackInRam /\ last.op = "step" /\ last.val = \h08) =>
              /\ BitClear(P', FLAG_B) = BitClear(last.P, FLAG_B)
              /\ BitAnd(P', FLAG_B) = 0
              /\ BitAnd(P', FLAG_U) # 0
              /\ SP' = last.SP ]_vars

(* C9 witness: PHP and PLP have run with SP = 0x00 and P = 0xEF, every bit *)
(* but B set.                                                               *)
PhpPlpRoundTripWitness ==
    /\ last.op = "step" /\ last.val = \h28 /\ last.SP = \hFF
    /\ prev.op = "step" /\ prev.val = \h08 /\ prev.SP = \h00 /\ prev.P = \hEF
    /\ Peek(data, \h0100) = \hFF
    /\ SP = \h00 /\ P = \hEF

(* C10: with the stack page in RAM, BRK at p with stack pointer s writes   *)
(* the high byte of (p + 2) mod 65536 at 0x0100+s, its low byte at          *)
(* 0x0100+((s-1) mod 256) and P | 0x30 at 0x0100+((s-2) mod 256), leaves    *)
(* SP = (s - 3) mod 256 and P = P | I, loads PC from the little-endian word *)
(* at 0xFFFE/0xFFFF, and returns 7.                                         *)
BrkPushesAndVectors ==
    [][ (StepOf(\h00) /\ StackInRam) =>
          /\ Peek(data', \h100 + SP) = Hi((PC + 2) % \h10000)
          /\ Peek(data', \h100 + ((SP - 1) % \h100)) = Lo((PC + 2) % \h10000)
          /\ Peek(data', \h100 + ((SP - 2) % \h100)) = BitOr(P, \h30)
          /\ SP' = (SP - 3) % \h100
          /\ P' = BitOr(P, FLAG_I)
          /\ PC' = Peek(data', \hFFFE) + \h100 * Peek(data', \hFFFF)
          /\ last'.ret = 7 ]_vars

(* C10 witness: BRK at 0xFFFF with SP = 0x01 and I clear has run: the      *)
(* return address 0x0001 is at 0x0101 and 0x0100, the status at 0x01FF, SP  *)
(* wrapped to 0xFE and I is set.                                            *)
BrkPushesAndVectorsWitness ==
    /\ last.op = "step" /\ last.val = \h00 /\ last.PC = \hFFFF /\ last.SP = \h01
    /\ BitAnd(last.P, FLAG_I) = 0
    /\ Peek(data, \h0101) = \h00 /\ Peek(data, \h0100) = \h01
    /\ Peek(data, \h01FF) = BitOr(last.P, \h30)
    /\ SP = \hFE /\ BitAnd(P, FLAG_I) # 0
    /\ PC = Peek(data, \hFFFE) + \h100 * Peek(data, \hFFFF)

(* the transition is a step() call on an opcode byte that has no handler *)
IsIllegalStep == IsStep /\ opcode_table[Peek(data, PC) + 1][2] = "illegal"

(* C11: step() on an opcode byte that has no handler raises                *)
(* NotImplementedError, and the error names the opcode byte and the PC at   *)
(* which the opcode was fetched, for every such opcode and every fetch PC.  *)
IllegalNamesFetchPC ==
    [][ IsIllegalStep =>
          /\ last'.exc.type = "NotImplementedError"
          /\ last'.exc.a = Peek(data, PC)
          /\ last'.exc.b = PC ]_vars

(* C11, what the code does: the error names the opcode byte and the PC     *)
(* after the fetch, (PC + 1) mod 65536, and the CPU is left at that PC with *)
(* nothing else changed.                                                    *)
IllegalNamesNextPC ==
    [][ IsIllegalStep =>
          /\ last'.exc.type = "NotImplementedError"
          /\ last'.exc.a = Peek(data, PC)
          /\ last'.exc.b = (PC + 1) % \h10000
          /\ PC' = (PC + 1) % \h10000
          /\ UNCHANGED <<A, X, Y, SP, P, data>> ]_vars

(* C11 witness: an opcode byte without a handler was fetched at 0xFFFF; the *)
(* error names that byte and PC 0x0000.                                     *)
IllegalNamesFetchPCWitness ==
    /\ last.op = "step" /\ last.PC = \hFFFF
    /\ last.exc.type = "NotImplementedError"
    /\ last.exc.a = last.val /\ last.exc.b = 0

----------------------------------------------------------------------------
(* The keyboard and the display, as the program sees them.                  *)

(* the transition is a poll() call; one that takes a byte from the host *)
IsPoll == at = "poll" /\ at' = "step"
PollTakes == IsPoll /\ stdin # <<>>
(* the transition is a step() call executing LDA addr (absolute) *)
LoadsFrom(addr) ==
    /\ StepOf(\hAD)
    /\ Peek(data, PC + 1) = Lo(addr) /\ Peek(data, PC + 2) = Hi(addr)
(* the code the keyboard latches for a host byte *)
KeyCode(b) == IF b % \h80 = \h0A THEN \h0D ELSE b % \h80

NoKeyDropped == [][ PollTakes => BitAnd(_kbdcr, \h80) = 0 ]_vars

(* two keys typed one after the other were both read and echoed, in order *)
NoKeyDroppedWitness ==
    /\ stdout = <<\h41, \h61>>
    /\ io_log[Len(io_log)] = <<"write_char", \hE1>>
    /\ _kbdcr = 0

(* C14: while no key is pending (bit 7 of the control register is clear),   *)
(* a read of 0xD010 returns 0x80 and leaves the key and the control         *)
(* register at 0, a read of 0xD011 returns 0x00, and a poll() that finds no *)
(* host input returns at once (the run goes on to step()) with the key and  *)
(* the control register as they were.                                       *)
NoKeyPending ==
    [][ /\ (BitAnd(_kbdcr, \h80) = 0 /\ LoadsFrom(KBD_DATA))
             => A' = \h80 /\ _key_pressed' = 0 /\ _kbdcr' = 0
        /\ (BitAnd(_kbdcr, \h80) = 0 /\ LoadsFrom(KBD_CTRL)) => A' = \h00
        /\ (at = "poll" /\ stdin = <<>>) => ENABLED Poll
        /\ (IsPoll /\ stdin = <<>>)
             => /\ UNCHANGED <<_key_pressed, _kbdcr, stdin>>
                /\ last'.op = "poll"
      ]_vars

(* nothing was typed: the first instruction read 0x80 from 0xD010 *)
NoKeyPendingWitness ==
    /\ steps = 1
    /\ last.op = "step" /\ last.val = \hAD
    /\ Peek(data, last.PC + 1) = Lo(KBD_DATA)
    /\ prev.op = "poll" /\ prev.val = -1
    /\ io_log = << <<"read_char", 0>> >>
    /\ A = \h80 /\ _key_pressed = 0 /\ _kbdcr = 0

(* the characters written to stdout since the last newline *)
RECURSIVE LineLen(_)
LineLen(out) ==
    IF out = <<>> \/ out[Len(out)] = 10 THEN 0
    ELSE 1 + LineLen(SubSeq(out, 1, Len(out) - 1))

(* C15: after any sequence of writes to the display the column is in        *)
(* 0..39 and equals the number of characters written since the last         *)
(* newline, and a newline follows at once every 40 characters written       *)
(* without one, so that no line of the output is longer than 40.            *)
ColumnTracksLine ==
    /\ _col \in 0..(SCREEN_COLS - 1)
    /\ _col = LineLen(stdout)
    /\ \A i \in 1..(Len(stdout) - SCREEN_COLS + 1) :
           (\A j \in 0..(SCREEN_COLS - 1) : stdout[i + j] # 10)
               => /\ i + SCREEN_COLS <= Len(stdout)
                  /\ stdout[i + SCREEN_COLS] = 10

(* forty stores of 'A' to 0xD012: forty characters, then one newline *)
ColumnTracksLineWitness ==
    /\ Len(io_log) = SCREEN_COLS
    /\ \A i \in 1..SCREEN_COLS : io_log[i] = <<"write_char", \h41>>
    /\ stdout = [i \in 1..(SCREEN_COLS + 1) |-> IF i <= SCREEN_COLS THEN \h41 ELSE 10]
    /\ _col = 0

(* the transition is a step() call executing STA addr (absolute) *)
StoresTo(addr) ==
    /\ StepOf(\h8D)
    /\ Peek(data, PC + 1) = Lo(addr) /\ Peek(data, PC + 2) = Hi(addr)

(* C16: a store of 0 to the display emits nothing and leaves the column;    *)
(* a store of b # 0 with b & 0x7F a CR or an LF (0x8D and 0x8A too) emits   *)
(* exactly one newline and sets the column to 0; any other store emits      *)
(* b & 0x7F and adds one to the column (the newline of C15 follows, and the *)
(* column returns to 0, when that makes it 40).                             *)
WriteCharCases ==
    [][ StoresTo(VIDEO_ADDR) =>
          LET c == BitAnd(A, \h7F) IN
          IF A = 0 THEN UNCHANGED <<stdout, _col>>
          ELSE IF c \in {\h0D, \h0A}
          THEN stdout' = Append(stdout, 10) /\ _col' = 0
          ELSE IF _col + 1 < SCREEN_COLS
          THEN stdout' = Append(stdout, c) /\ _col' = _col + 1
          ELSE stdout' = Append(Append(stdout, c), 10) /\ _col' = 0
      ]_vars

(* 0x8D stored after 39 characters: one newline, column 0; then a store of  *)
(* 'A' that is emitted and makes the column 1                               *)
WriteCharCasesWitness ==
    /\ Len(stdout) = SCREEN_COLS + 1
    /\ stdout[SCREEN_COLS] = 10
    /\ stdout[SCREEN_COLS + 1] = \h41
    /\ io_log[SCREEN_COLS] = <<"write_char", \h8D>>
    /\ _col = 1
    /\ last.op = "step" /\ last.val = \h8D /\ last.A = \h41

----------------------------------------------------------------------------
(* The scheduler loop of A1E.run().                                         *)

TypeRun == at \in {"Video", "Keyboard", "map_video", "map_kbd_data", "map_kbd_ctrl",
                   "CPU6502", "reset", "try", "frame", "poll", "step",
                   "frame_end", "finally", "returned"}

(* C17: poll() is called exactly once immediately before every step():      *)
(* of the calls to poll() and step() the first is a poll(), the call before *)
(* a step() is a poll() and the call before a poll() is not, within a frame *)
(* and from one frame to the next.                                          *)
PollBeforeEveryStep ==
    [][ /\ IsStep => last.op = "poll" /\ last'.op = "step"
        /\ IsPoll => last.op # "poll" /\ last'.op = "poll"
      ]_vars

(* the first instruction of the second frame has run, after one poll() *)
PollBeforeEveryStepWitness ==
    /\ frames = 1
    /\ at = "poll"
    /\ cycles \in 1..7
    /\ last.op = "step" /\ prev.op = "poll"

(* C18: a frame starts with cycles at 0 and steps while the count is below  *)
(* CYCLES_PER_FRAME (16666); it ends with the first instruction that makes  *)
(* the count reach it, so a frame's total is in 16666..16672, an            *)
(* instruction returning at most 7 cycles.                                  *)
FrameCycleBudget ==
    [][ /\ CYCLES_PER_FRAME = 16666
        /\ (at = "frame" /\ at' # "frame") => cycles' = 0
        /\ IsStep => cycles < CYCLES_PER_FRAME /\ last'.ret \in 0..7
        /\ (IsStep /\ last'.exc = NoExc) => cycles' = cycles + last'.ret
        /\ at' = "frame_end" => /\ cycles' \in CYCLES_PER_FRAME..(CYCLES_PER_FRAME + 6)
                                /\ cycles' - last'.ret < CYCLES_PER_FRAME
        /\ (IsStep /\ cycles' < CYCLES_PER_FRAME /\ last'.exc = NoExc) => at' = "poll"
      ]_vars

(* a frame that ended at 16665 + 7 cycles, with BRK *)
FrameCycleBudgetWitness ==
    /\ at = "frame_end"
    /\ cycles = CYCLES_PER_FRAME + 6
    /\ last.op = "step" /\ last.val = \h00 /\ last.ret = 7

(* the transition is the end of a frame *)
IsFrameEnd == frames' = frames + 1

(* C19: emu_time advances by exactly FRAME_TIME once per frame and is never *)
(* set from the clock: it is the time the loop started plus FRAME_TIME for  *)
(* every frame run.  The frame's end sleeps for emu_time - now when         *)
(* emu_time > now and does not sleep otherwise, so after a stall frames run *)
(* without sleeping until emu_time exceeds the clock again.                 *)
FramePacing ==
    [][ /\ at \in InTry => emu_time = frames * FRAME_TIME
        /\ IsFrameEnd =>
             /\ emu_time' = emu_time + FRAME_TIME
             /\ now' >= clock
             /\ IF emu_time' > now'
                THEN slept' = <<emu_time' - now'>> /\ clock' = emu_time'
                ELSE slept' = <<>> /\ clock' = now'
        /\ ~IsFrameEnd => UNCHANGED <<now, clock, slept>>
        /\ (~IsFrameEnd /\ at # "try") => UNCHANGED emu_time
      ]_vars

(* a stall in the first frame, a second frame that did not sleep, and a     *)
(* third that slept for what was left                                       *)
FramePacingWitness ==
    /\ frames = 3
    /\ emu_time = 3 * FRAME_TIME
    /\ now = 2 * FRAME_TIME + 1
    /\ slept = <<FRAME_TIME - 1>>
    /\ clock = emu_time

(* C20: once Keyboard() has put the terminal into cbreak mode, run() does   *)
(* not return to main() before keyboard.cleanup() restored the settings     *)
(* Keyboard() found.                                                        *)
CleanupOnEveryExit == at = "returned" => tty = "cooked"

(* what does hold: an exception raised inside the try block is followed by  *)
(* keyboard.cleanup() before run() returns                                  *)
CleanupAfterTry ==
    [][ /\ (at \in InTry /\ raised' # NoExc) => at' = "finally"
        /\ at = "finally" => at' = "returned" /\ tty' = _old_settings /\ tty' = "cooked"
      ]_vars

(* an illegal opcode ended run(), and the terminal is as it was *)
CleanupOnEveryExitWitness ==
    /\ at = "returned"
    /\ raised.type = "NotImplementedError"
    /\ _old_settings = "cooked" /\ tty = "cooked"
    /\ steps = 1

----------------------------------------------------------------------------
(* Instruction fetch and cycle counts.                                      *)

(* the address has a reader hook *)
HasReader(a) == a \in DOMAIN _io_handlers /\ _io_handlers[a][1] # "None"

(* the addresses step() takes the opcode and the operand bytes from *)
FetchAddrs ==
    { (PC + i) % \h10000 : i \in 0..(opcode_table[Peek(data, PC) + 1][1] - 1) }

(* C21: step() fetches through Memory.read: when the opcode or an operand   *)
(* byte lies at an address with a reader hook, the step calls that hook     *)
(* (the call is the first the step adds to the log of hook calls).          *)
FetchInvokesHook ==
    [][ \A a \in FetchAddrs :
          (IsStep /\ HasReader(a))
             => /\ Len(io_log') > Len(io_log)
                /\ io_log'[Len(io_log) + 1][1] \in {_io_handlers[b][1] : b \in FetchAddrs}
      ]_vars

(* what the code does: the bytes of the instruction come from the memory    *)
(* array, so an instruction that touches no memory calls no hook wherever   *)
(* it lies                                                                  *)
FetchReadsArray ==
    [][ (IsStep /\ Peek(data, PC) \in {\hA9, \hEA, \h4C})
          => UNCHANGED <<io_log, _key_pressed, _kbdcr>> ]_vars

(* the NOP stored at 0xD011 was executed, after LDA #$55 at 0xD00F *)
FetchInvokesHookWitness ==
    /\ last.op = "step" /\ last.PC = KBD_CTRL /\ last.val = \hEA
    /\ A = \h55
    /\ PC = VIDEO_ADDR
    /\ io_log = <<>>

(* the opcode and the operand bytes of the instruction at PC *)
Opcode == Peek(data, PC)
Operand1 == Peek(data, (PC + 1) % \h10000)
Operand2 == Peek(data, (PC + 2) % \h10000)
(* the 16-bit operand, and the pointer the zero-page operand names *)
AbsOperand == Operand2 * \h100 + Operand1
ZpPointer == Peek(data, (Operand1 + 1) % \h100) * \h100 + Peek(data, Operand1)
(* 1 when base and base + index lie in different pages, else 0 *)
CrossingCost(base, index) ==
    IF Hi(base) # Hi((base + index) % \h10000) THEN 1 ELSE 0
(* the flag is set in P *)
FlagSet(flag) == BitAnd(P, flag) # 0

(* the opcodes of the plain reads, by addressing mode; ADC and SBC apart *)
ReadsAbsX == {\hBD, \hBC, \h3D, \h1D, \h5D, \hDD}
ReadsAbsY == {\hB9, \hBE, \h39, \h19, \h59, \hD9}
ReadsIndY == {\hB1, \h31, \h11, \h51, \hD1}
(* ADC and SBC, whose count C22 states for D = 0 *)
SumsAbsX == {\h7D, \hFD}
SumsAbsY == {\h79, \hF9}
SumsIndY == {\h71, \hF1}
(* ASL, LSR, ROL, ROR, INC and DEC absolute,X *)
RmwAbsX == {\h1E, \h5E, \h3E, \h7E, \hFE, \hDE}

(* C22: LDA, LDX, LDY, AND, ORA, EOR, CMP, and ADC and SBC with D = 0,      *)
(* return 4 cycles in absolute,X and absolute,Y mode and 5 in (indirect),Y  *)
(* mode, plus 1 exactly when the base address and (base + index) mod 65536  *)
(* lie in different pages; STA absolute,X and absolute,Y return 5, STA      *)
(* (indirect),Y returns 6 and the read-modify-write instructions in         *)
(* absolute,X mode return 7, whatever the index.                            *)
PageCrossCycles ==
    [][ IsStep =>
          /\ (Opcode \in ReadsAbsX \/ (Opcode \in SumsAbsX /\ ~FlagSet(FLAG_D)))
                => last'.ret = 4 + CrossingCost(AbsOperand, X)
          /\ (Opcode \in ReadsAbsY \/ (Opcode \in SumsAbsY /\ ~FlagSet(FLAG_D)))
                => last'.ret = 4 + CrossingCost(AbsOperand, Y)
          /\ (Opcode \in ReadsIndY \/ (Opcode \in SumsIndY /\ ~FlagSet(FLAG_D)))
                => last'.ret = 5 + CrossingCost(ZpPointer, Y)
          /\ Opcode \in {\h9D, \h99} => last'.ret = 5
          /\ Opcode = \h91 => last'.ret = 6
          /\ Opcode \in RmwAbsX => last'.ret = 7
      ]_vars

(* LDA $00FF,X with X = 1 crossed into page 1 and took 5 cycles *)
PageCrossCyclesWitness ==
    /\ last.op = "step" /\ last.val = \hBD
    /\ Peek(data, last.PC + 1) = \hFF /\ Peek(data, last.PC + 2) = \h00
    /\ last.X = \h01
    /\ last.ret = 5

(* the offset byte as a signed 8-bit value *)
Signed8(b) == IF b >= \h80 THEN b - \h100 ELSE b

(* the condition of the branch opcode *)
BranchTaken(op) ==
    CASE op = \h10 -> ~FlagSet(FLAG_N)
      [] op = \h30 -> FlagSet(FLAG_N)
      [] op = \h50 -> ~FlagSet(FLAG_V)
      [] op = \h70 -> FlagSet(FLAG_V)
      [] op = \h90 -> ~FlagSet(FLAG_C)
      [] op = \hB0 -> FlagSet(FLAG_C)
      [] op = \hD0 -> ~FlagSet(FLAG_Z)
      [] op = \hF0 -> FlagSet(FLAG_Z)

Branches == {\h10, \h30, \h50, \h70, \h90, \hB0, \hD0, \hF0}

(* C23: a branch at p, with next == (p + 2) mod 65536: when its condition   *)
(* is false PC becomes next and step() returns 2; when it is true PC        *)
(* becomes (next + signed offset) mod 65536 and step() returns 3 when next  *)
(* and the target are in the same page, 4 otherwise.                        *)
BranchTargetAndCycles ==
    [][ (IsStep /\ Opcode \in Branches) =>
          LET next == (PC + 2) % \h10000
              target == (next + Signed8(Operand1)) % \h10000
          IN  IF BranchTaken(Opcode)
              THEN /\ PC' = target
                   /\ last'.ret = IF Hi(next) = Hi(target) THEN 3 ELSE 4
              ELSE /\ PC' = next
                   /\ last'.ret = 2
      ]_vars

(* BNE at 0xFFFE with offset 0x80 and Z clear: from 0x0000 back to 0xFF80,  *)
(* in 4 cycles                                                              *)
BranchTargetAndCyclesWitness ==
    /\ last.op = "step" /\ last.val = \hD0 /\ last.PC = \hFFFE
    /\ Peek(data, \hFFFF) = \h80
    /\ PC = \hFF80
    /\ last.ret = 4

(* the name and the addressing mode of the instruction at PC *)
Mnemonic == opcode_table[Opcode + 1][2]
Mode == opcode_table[Opcode + 1][3]

(* C24: with D = 1 every ADC and SBC opcode returns one cycle more than the *)
(* same step returns from the state that differs in D = 0 only (the same    *)
(* operands, registers and memory), which is the count of its addressing    *)
(* mode: 2, 3, 4, 4, 4 or 5, 4 or 5, 6, 5 or 6.                             *)
DecimalExtraCycle ==
    [][ (IsStep /\ Mnemonic \in {"ADC", "SBC"}) =>
          LET binary == step([Machine EXCEPT !.P = BitClear(P, FLAG_D)]).ret
          IN  /\ binary \in CASE Mode = "imm" -> {2}
                              [] Mode = "zp" -> {3}
                              [] Mode \in {"zp_x", "abs"} -> {4}
                              [] Mode \in {"abs_x", "abs_y"} -> {4, 5}
                              [] Mode = "ind_x" -> {6}
                              [] Mode = "ind_y" -> {5, 6}
              /\ last'.ret = IF FlagSet(FLAG_D) THEN binary + 1 ELSE binary
      ]_vars

(* SBC (indirect),Y in decimal mode, the page crossed: 5 + 1 + 1 cycles *)
DecimalExtraCycleWitness ==
    /\ last.op = "step" /\ last.val = \hF1
    /\ BitAnd(last.P, FLAG_D) # 0
    /\ last.ret = 7

(* the operand byte of an immediate or absolute instruction at PC *)
OperandByte == IF Mode = "imm" THEN Operand1 ELSE Peek(data, AbsOperand)
CarryIn == IF FlagSet(FLAG_C) THEN 1 ELSE 0
(* the flag is set in P after the step *)
FlagSetAfter(flag) == BitAnd(P', flag) # 0
(* the flags in the mask have the values they had *)
FlagsKept(mask) == BitAnd(P', mask) = BitAnd(P, mask)

(* C25: binary ADC (D = 0) of A, M and the carry C: A becomes               *)
(* (A + M + C) mod 256; C is set iff A + M + C > 255; V iff the sum of A    *)
(* and M as signed bytes, plus C, is outside -128..127; Z iff the new A is  *)
(* 0; N is bit 7 of the new A; D, I and U keep their values.                *)
BinaryAdc ==
    [][ (IsStep /\ Opcode \in {\h69, \h6D} /\ ~FlagSet(FLAG_D)) =>
          LET sum == A + OperandByte + CarryIn
              signed == Signed8(A) + Signed8(OperandByte) + CarryIn
          IN  /\ A' = sum % \h100
              /\ FlagSetAfter(FLAG_C) <=> sum > \hFF
              /\ FlagSetAfter(FLAG_V) <=> signed \notin -128..127
              /\ FlagSetAfter(FLAG_V) <=>
                    (BitAnd(A, \h80) = BitAnd(OperandByte, \h80)
                       /\ BitAnd(A', \h80) # BitAnd(A, \h80))
              /\ FlagSetAfter(FLAG_Z) <=> A' = 0
              /\ FlagSetAfter(FLAG_N) <=> A' >= \h80
              /\ FlagsKept(BitOr(BitOr(FLAG_D, FLAG_I), FLAG_U))
      ]_vars

(* 0x50 + 0x50 with C clear: A = 0xA0, C = 0, V = 1, N = 1, Z = 0, 2 cycles *)
BinaryAdcWitness ==
    /\ last.op = "step" /\ last.val = \h69 /\ last.A = \h50
    /\ Peek(data, last.PC + 1) = \h50
    /\ BitAnd(last.P, BitOr(FLAG_C, FLAG_D)) = 0
    /\ A = \hA0
    /\ BitAnd(P, BitOr(BitOr(FLAG_C, FLAG_V), BitOr(FLAG_N, FLAG_Z))) = BitOr(FLAG_V, FLAG_N)
    /\ last.ret = 2

(* the machine with ADC #m in place of the immediate instruction at PC *)
WithAdcOf(m) ==
    [Machine EXCEPT !.data = Poke(Poke(data, PC, \h69), (PC + 1) % \h10000, m)]

NVZC == BitOr(BitOr(FLAG_N, FLAG_V), BitOr(FLAG_Z, FLAG_C))

(* C26: binary SBC (D = 0) of M leaves the A and the flags C, V, Z and N    *)
(* that ADC of M ^ 0xFF leaves from the same state; A becomes               *)
(* (A - M - (1 - C)) mod 256 and C is set iff there was no borrow, that is  *)
(* iff A >= M + (1 - C).                                                    *)
BinarySbc ==
    [][ (IsStep /\ Opcode \in {\hE9, \hED} /\ ~FlagSet(FLAG_D)) =>
          LET M == OperandByte
              adc == step(WithAdcOf(BitXor(M, \hFF)))
          IN  /\ A' = adc.A
              /\ BitAnd(P', NVZC) = BitAnd(adc.P, NVZC)
              /\ A' = (A - M - (1 - CarryIn)) % \h100
              /\ FlagSetAfter(FLAG_C) <=> A >= M + (1 - CarryIn)
      ]_vars

(* 0x50 - 0xF0 with C set: A = 0x60 with a borrow (C clear) *)
BinarySbcWitness ==
    /\ last.op = "step" /\ last.val = \hE9 /\ last.A = \h50
    /\ Peek(data, last.PC + 1) = \hF0
    /\ BitAnd(last.P, BitOr(FLAG_C, FLAG_D)) = FLAG_C
    /\ A = \h60
    /\ BitAnd(P, FLAG_C) = 0

(* binary-coded decimal: the number a valid byte encodes, and the byte that *)
(* encodes a number below 100                                               *)
IsBcd(b) == b % 16 <= 9 /\ b \div 16 <= 9
Dec(b) == 10 * (b \div 16) + (b % 16)
Bcd(n) == 16 * (n \div 10) + (n % 10)

CompareFlags ==
    [][ (IsStep /\ Mnemonic \in {"CMP", "CPX", "CPY"} /\ Mode \in {"imm", "abs"}) =>
          LET r == CASE Mnemonic = "CMP" -> A
                     [] Mnemonic = "CPX" -> X
                     [] Mnemonic = "CPY" -> Y
              M == OperandByte
          IN  /\ FlagSetAfter(FLAG_C) <=> r >= M
              /\ FlagSetAfter(FLAG_Z) <=> r = M
              /\ FlagSetAfter(FLAG_N) <=> ((r - M) % \h100) >= \h80
              /\ UNCHANGED <<A, X, Y, SP, data>>
              /\ FlagsKept(BitOr(BitOr(FLAG_V, FLAG_D), FLAG_I))
      ]_vars

(* CPX of 0x10 with 0x90: C clear, Z clear, N set (0x10 - 0x90 = 0x80) *)
CompareFlagsWitness ==
    /\ last.op = "step" /\ last.val = \hEC /\ last.X = \h10
    /\ Peek(data, \h0340) = \h90
    /\ BitAnd(P, BitOr(BitOr(FLAG_C, FLAG_Z), FLAG_N)) = FLAG_N
    /\ X = \h10

(* C30: JMP (ptr) takes the low byte of the target from ptr and the high    *)
(* byte from the address in the same page that follows it, wrapping to the  *)
(* start of the page when ptr ends in 0xFF (never from the next page), and  *)
(* returns 5 cycles.                                                        *)
JmpIndirectPageWrap ==
    [][ (IsStep /\ Opcode = \h6C) =>
          LET ptr == AbsOperand
              hi_addr == Hi(ptr) * \h100 + ((Lo(ptr) + 1) % \h100)
          IN  /\ last'.ret = 5
              /\ Lo(ptr) = \hFF => hi_addr = ptr - \hFF
              /\ (~HasReader(ptr) /\ ~HasReader(hi_addr))
                    => PC' = Peek(data, hi_addr) * \h100 + Peek(data, ptr)
              /\ UNCHANGED <<A, X, Y, SP, P, data>>
      ]_vars

(* JMP ($00FF) with 0xFF at 0x00FF, 0x00 at 0x0000 and 0xDF at 0x0100 went  *)
(* to 0x00FF                                                                *)
JmpIndirectPageWrapWitness ==
    /\ last.op = "step" /\ last.val = \h6C
    /\ Peek(data, last.PC + 1) = \hFF /\ Peek(data, last.PC + 2) = \h00
    /\ Peek(data, \h00FF) = \hFF /\ Peek(data, \h0000) = \h00
    /\ Peek(data, \h0100) = \hDF
    /\ PC = \h00FF
    /\ last.ret = 5

----------------------------------------------------------------------------
(* Addressing, the stack and the flags.                                     *)

(* the 16-bit pointer held in zero page at z and (z + 1) mod 256 *)
ZpWord(z) == Peek(data, (z + 1) % \h100) * \h100 + Peek(data, z)

(* the effective address of the zero-page indexed and indirect instruction  *)
(* at PC, as C31 states it                                                  *)
ZpEffective ==
    CASE Mode = "zp_x" -> (Operand1 + X) % \h100
      [] Mode = "zp_y" -> (Operand1 + Y) % \h100
      [] Mode = "ind_x" -> ZpWord((Operand1 + X) % \h100)
      [] Mode = "ind_y" -> (ZpWord(Operand1) + Y) % \h10000

ZpModes == {"zp_x", "zp_y", "ind_x", "ind_y"}

(* C31: zero-page indexing never leaves page zero.  A load in zero page,X   *)
(* or zero page,Y mode reads (o0 + index) mod 256; in (indirect,X) mode the *)
(* pointer is read from (o0 + X) mod 256 and (o0 + X + 1) mod 256; in       *)
(* (indirect),Y mode from o0 and (o0 + 1) mod 256; the stores write to the  *)
(* same addresses.                                                          *)
ZeroPageWraps ==
    [][ (IsStep /\ Mode \in ZpModes) =>
          /\ Mode \in {"zp_x", "zp_y"} => ZpEffective \in 0..\hFF
          /\ (Mnemonic = "LDA" /\ ~HasReader(ZpEffective)) => A' = Peek(data, ZpEffective)
          /\ (Mnemonic = "LDX" /\ ~HasReader(ZpEffective)) => X' = Peek(data, ZpEffective)
          /\ (Mnemonic = "LDY" /\ ~HasReader(ZpEffective)) => Y' = Peek(data, ZpEffective)
          /\ (Mnemonic \in {"STA", "STX", "STY"} /\ NoHook(ZpEffective)
                /\ ZpEffective < _rom_start)
                => /\ Peek(data', ZpEffective) =
                         CASE Mnemonic = "STA" -> A
                           [] Mnemonic = "STX" -> X
                           [] Mnemonic = "STY" -> Y
                   /\ SameBytesOutside({ZpEffective})
      ]_vars

(* LDX $FF,Y with Y = 2 read 0x0001, which differs from the byte at 0x0101 *)
ZeroPageWrapsWitness ==
    /\ last.op = "step" /\ last.val = \hB6 /\ last.Y = \h02
    /\ Peek(data, (last.PC + 1) % \h10000) = \hFF
    /\ X = Peek(data, \h0001)
    /\ X # Peek(data, \h0101)

(* C32: load_data(bytes, start) raises and leaves the memory array as it    *)
(* was when start + len(bytes) > 65536; otherwise the bytes are at          *)
(* data[start .. start + len), in the ROM window and at hooked addresses    *)
(* too, no hook was called and no other byte changed.                       *)
LoadDataCopies ==
    [][ \A g \in MemImages :
          (IsCall("load_data") /\ last'.addr = g[2] /\ last'.val = Len(g[1])) =>
             IF g[2] + Len(g[1]) > 65536
             THEN /\ last'.exc # NoExc
                  /\ UNCHANGED data
             ELSE /\ last'.exc = NoExc
                  /\ \A i \in 1..Len(g[1]) : Peek(data', g[2] + i - 1) = g[1][i]
                  /\ SameBytesOutside(g[2]..(g[2] + Len(g[1]) - 1))
                  /\ UNCHANGED <<io_log, stdout, _col, _key_pressed, _kbdcr>>
      ]_vars

(* 0xC1 and 0x55 were loaded over 0xD011 and 0xD012, which have hooks, with *)
(* the ROM window starting below them, and no hook was called               *)
LoadDataCopiesWitness ==
    /\ last.op = "load_data" /\ last.addr = \hD011 /\ last.exc = NoExc
    /\ _rom_start = \hD000
    /\ \hD012 \in DOMAIN _io_handlers /\ _io_handlers[\hD012][2] = "write_char"
    /\ Peek(data, \hD011) = \hC1 /\ Peek(data, \hD012) = \h55
    /\ io_log = <<>>

----------------------------------------------------------------------------
(* The opcode table.                                                        *)

(* the opcode bytes whose slot holds an instruction handler *)
Defined == { op \in Byte : opcode_table[op + 1][2] # "illegal" }

(* C33: the opcode table has 256 entries, each a (length, handler) with a   *)
(* length of 1, 2 or 3; the 151 decorators register 151 different opcode    *)
(* bytes, these are the bytes that map to an instruction handler, and the   *)
(* other 105 map to illegal with length 1: a step raises                    *)
(* NotImplementedError on exactly these.                                    *)
OpcodeTableShape ==
    [][ IsStep =>
          /\ Len(opcode_table) = 256
          /\ \A op \in Byte : opcode_table[op + 1][1] \in {1, 2, 3}
          /\ Len(registered) = 151
          /\ Cardinality({ registered[i] : i \in 1..Len(registered) }) = Len(registered)
          /\ Defined = { registered[i] : i \in 1..Len(registered) }
          /\ Cardinality(Defined) = 151
          /\ Cardinality(Byte \ Defined) = 105
          /\ \A op \in Byte \ Defined : opcode_table[op + 1][1] = 1
          /\ last'.exc.type = "NotImplementedError" <=> Peek(data, PC) \notin Defined
      ]_vars

(* TYA, the last handler registered, has run; the byte after it in the      *)
(* array has no handler                                                     *)
OpcodeTableShapeWitness ==
    /\ last.op = "step" /\ last.val = \h98 /\ last.exc = NoExc
    /\ Peek(data, PC) \notin Defined

----------------------------------------------------------------------------
(* The exit status.                                                         *)

(* C34: the program ends with exit status 0 when run() is ended by a host   *)
(* interrupt, and with a nonzero status when an image overflows 64 KiB from *)
(* its start address or a file cannot be read before run() is entered; in   *)
(* that case the emulation loop never starts.                               *)
ExitStatus ==
    [][ /\ at # "exit"
        /\ (at \notin InMain /\ raised # KeyboardInterrupt
              /\ raised' = KeyboardInterrupt) => at' \in {"finally", "returned"}
        /\ (at = "finally" /\ raised = KeyboardInterrupt) => at' = "returned"
        /\ (at = "returned" /\ raised = KeyboardInterrupt /\ at' = "exit")
              => status' = 0
        /\ (at \in InMain /\ last'.op = "load_data" /\ last' # last
              /\ (last'.addr + last'.val > 65536 \/ last'.exc = OSError))
              => /\ at' = "exit" /\ status' \notin {0, -1}
                 /\ steps' = 0 /\ resets' = 0 /\ frames' = 0
                 /\ _io_handlers' = NoHandlers /\ tty' = "cooked"
      ]_vars

(* Ctrl-C ended a run() that had executed instructions, and the process     *)
(* exited with status 0                                                     *)
ExitStatusWitness ==
    /\ at = "exit" /\ raised = KeyboardInterrupt /\ steps > 0 /\ status = 0

(* the program image did not fit below 64 KiB, after a monitor was loaded:  *)
(* the process exited without entering run()                                *)
ExitStatusSetupWitness ==
    /\ at = "exit" /\ raised.type = "Exception: Data too large"
    /\ last.addr = \hFFFF /\ Peek(data, \hF000) = \hEA
    /\ status = 1 /\ steps = 0

----------------------------------------------------------------------------
(* The stack and the status register.                                       *)

(* the flags Z and N after the step are those of the byte *)
ZnOf(v) ==
    /\ FlagSetAfter(FLAG_Z) <=> v = 0
    /\ FlagSetAfter(FLAG_N) <=> v >= \h80

(* C35: with the stack page in RAM, PHA writes A at 0x0100 + SP and then    *)
(* sets SP = (SP - 1) mod 256; PLA sets SP = (SP + 1) mod 256 and then      *)
(* reads 0x0100 + SP; PHA followed by PLA restores A and SP and sets Z and  *)
(* N from the value; every access is within 0x0100..0x01FF, from every SP   *)
(* in 0..255.                                                               *)
StackDiscipline ==
    [][ (IsStep /\ StackInRam /\ \A a \in \h100..\h1FF : NoHook(a)) =>
          /\ Mnemonic = "PHA" =>
                /\ Peek(data', \h100 + SP) = A
                /\ SP' = (SP - 1) % \h100
                /\ SameBytesOutside({\h100 + SP})
                /\ \h100 + SP \in \h100..\h1FF
                /\ A' = A
          /\ Mnemonic = "PLA" =>
                /\ SP' = (SP + 1) % \h100
                /\ A' = Peek(data, \h100 + SP')
                /\ \h100 + SP' \in \h100..\h1FF
                /\ ZnOf(A')
                /\ UNCHANGED data
          /\ (Mnemonic = "PLA" /\ last.op = "step" /\ last.val = \h48
                /\ last.exc = NoExc /\ steps > MonitorSteps) =>
                /\ A' = last.A /\ SP' = last.SP
                /\ ZnOf(last.A)
      ]_vars

(* PHA at SP = 0x00 wrote 0x80 at 0x0100 and left SP = 0xFF; PLA then read  *)
(* 0x0100 and left SP = 0x00, A = 0x80 and N set                            *)
StackDisciplineWitness ==
    /\ last.op = "step" /\ last.val = \h68 /\ prev.val = \h48
    /\ prev.SP = \h00 /\ last.SP = \hFF /\ SP = \h00
    /\ A = \h80 /\ Peek(data, \h100) = \h80
    /\ FlagSet(FLAG_N) /\ ~FlagSet(FLAG_Z)

(* the address is RAM with no hook: a write to it stores the byte *)
PlainRam(a) == a < _rom_start /\ NoHook(a)

(* C36: from reset, after any sequence of instructions, PLP and RTI pulling *)
(* a byte that has bit 4 set among them, bit B (0x10) of P is 0; and every  *)
(* status byte PHP or BRK writes to the stack has both B and U set.         *)
BreakBitOnlyPushed ==
    /\ [](BitAnd(P, FLAG_B) = 0)
    /\ [][ IsStep =>
             /\ (Mnemonic = "PHP" /\ PlainRam(\h100 + SP)) =>
                   /\ BitAnd(Peek(data', \h100 + SP), FLAG_B + FLAG_U) = FLAG_B + FLAG_U
                   /\ BitClear(Peek(data', \h100 + SP), FLAG_B + FLAG_U)
                         = BitClear(P, FLAG_B + FLAG_U)
             /\ (Mnemonic = "BRK" /\ PlainRam(\h100 + ((SP - 2) % \h100))) =>
                   /\ BitAnd(Peek(data', \h100 + ((SP - 2) % \h100)), FLAG_B + FLAG_U)
                         = FLAG_B + FLAG_U
                   /\ BitClear(Peek(data', \h100 + ((SP - 2) % \h100)), FLAG_B + FLAG_U)
                         = BitClear(P, FLAG_B + FLAG_U)
         ]_vars

(* RTI, run by the program, pulled a status byte that has bit 4 set, and P  *)
(* has B clear                                                              *)
BreakBitOnlyPushedWitness ==
    /\ last.op = "step" /\ last.val = \h40 /\ last.exc = NoExc
    /\ steps > MonitorSteps
    /\ BitAnd(Peek(data, \h100 + ((last.SP + 1) % \h100)), FLAG_B) # 0
    /\ BitAnd(P, FLAG_B) = 0
    /\ BitAnd(P, FLAG_V) # 0

(* the effective address of the instruction at PC, by its addressing mode *)
Effective ==
    CASE Mode = "zp" -> Operand1
      [] Mode \in ZpModes -> ZpEffective
      [] Mode = "abs" -> AbsOperand
      [] Mode = "abs_x" -> (AbsOperand + X) % \h10000
      [] Mode = "abs_y" -> (AbsOperand + Y) % \h10000

(* the instructions whose only effect on the flags is Z and N, and the byte *)
(* they produce                                                             *)
ZnOnly ==
    { "LDA", "LDX", "LDY", "TAX", "TAY", "TSX", "TXA", "TYA", "INX", "INY", "DEX",
      "DEY", "INC", "DEC", "AND", "ORA", "EOR", "PLA" }

ZnResult ==
    CASE Mnemonic \in {"LDA", "TXA", "TYA", "AND", "ORA", "EOR", "PLA"} -> A'
      [] Mnemonic \in {"LDX", "TAX", "TSX", "INX", "DEX"} -> X'
      [] Mnemonic \in {"LDY", "TAY", "INY", "DEY"} -> Y'
      [] Mnemonic = "INC" -> (Peek(data, Effective) + 1) % \h100
      [] Mnemonic = "DEC" -> (Peek(data, Effective) + \hFF) % \h100

(* the flag instructions: the bit each one names, and whether it sets it *)
FlagOps ==
    [ CLC |-> <<FLAG_C, FALSE>>, CLD |-> <<FLAG_D, FALSE>>, CLI |-> <<FLAG_I, FALSE>>,
      CLV |-> <<FLAG_V, FALSE>>, SEC |-> <<FLAG_C, TRUE>>, SED |-> <<FLAG_D, TRUE>>,
      SEI |-> <<FLAG_I, TRUE>> ]

(* C37: the flag frame.  LDA/LDX/LDY, TAX/TAY/TSX/TXA/TYA, INX/INY/DEX/DEY, *)
(* INC/DEC, AND/ORA/EOR and PLA set Z iff the 8-bit result is 0 and N iff   *)
(* its bit 7 is 1, and leave C, V, D, I and U; CLC/CLD/CLI/CLV/SEC/SED/SEI  *)
(* change only their own bit of P; TXS, the stores, PHA, JMP, JSR, RTS and  *)
(* NOP change no bit of P.                                                  *)
FlagFrame ==
    [][ IsStep =>
          /\ Mnemonic \in ZnOnly =>
                /\ FlagsKept(FLAG_C + FLAG_V + FLAG_D + FLAG_I + FLAG_U)
                /\ (Mnemonic \in {"INC", "DEC"} => ~HasReader(Effective))
                      => ZnOf(ZnResult)
          /\ Mnemonic \in DOMAIN FlagOps =>
                P' = IF FlagOps[Mnemonic][2] THEN BitOr(P, FlagOps[Mnemonic][1])
                     ELSE BitClear(P, FlagOps[Mnemonic][1])
          /\ Mnemonic \in {"TXS", "STA", "STX", "STY", "PHA", "JMP", "JSR", "RTS", "NOP"}
                => P' = P
      ]_vars

(* LDA #0 with N, V, Z and C set left Z set, N clear and C and V as they    *)
(* were                                                                     *)
FlagFrameWitness ==
    /\ last.op = "step" /\ last.val = \hA9 /\ steps > MonitorSteps
    /\ last.P = \hE3 /\ A = \h00 /\ P = \h63

----------------------------------------------------------------------------
(* Shifts and rotates.                                                      *)

Shifts == {"ASL", "LSR", "ROL", "ROR"}

(* the value the shift at PC works on, its result and the bit shifted out *)
ShiftValue == IF Mode = "acc" THEN A ELSE Peek(data, Effective)

ShiftResult ==
    CASE Mnemonic = "ASL" -> (ShiftValue * 2) % \h100
      [] Mnemonic = "LSR" -> ShiftValue \div 2
      [] Mnemonic = "ROL" -> (ShiftValue * 2 + CarryIn) % \h100
      [] Mnemonic = "ROR" -> CarryIn * \h80 + ShiftValue \div 2

ShiftedOut ==
    IF Mnemonic \in {"ASL", "ROL"} THEN ShiftValue \div \h80 ELSE ShiftValue % 2

(* C38: on a value v with carry-in c, ASL gives (v << 1) mod 256 with       *)
(* C = bit 7 of v; LSR gives v >> 1 with C = bit 0 of v; ROL gives          *)
(* ((v << 1) | c) mod 256 with C = bit 7 of v; ROR gives (c << 7) | (v >> 1) *)
(* with C = bit 0 of v; Z and N come from the result; the accumulator forms *)
(* update A and leave memory, the memory forms write the result back to     *)
(* the same effective address and leave A.                                  *)
ShiftsAndRotates ==
    [][ (IsStep /\ Mnemonic \in Shifts /\ (Mode # "acc" => PlainRam(Effective))) =>
          /\ FlagSetAfter(FLAG_C) <=> ShiftedOut = 1
          /\ ZnOf(ShiftResult)
          /\ FlagsKept(FLAG_V + FLAG_D + FLAG_I + FLAG_U)
          /\ Mode = "acc" => (A' = ShiftResult /\ UNCHANGED data)
          /\ Mode # "acc" =>
                /\ A' = A
                /\ Peek(data', Effective) = ShiftResult
                /\ SameBytesOutside({Effective})
      ]_vars

(* ROR $0330,X with X = 0x10 and C set turned the 0x01 at 0x0340 into 0x80, *)
(* set C and N and left A                                                   *)
ShiftsAndRotatesWitness ==
    /\ last.op = "step" /\ last.val = \h7E /\ steps > MonitorSteps
    /\ last.A = \hFE /\ A = \hFE
    /\ Peek(data, \h0340) = \h80
    /\ FlagSet(FLAG_C) /\ FlagSet(FLAG_N) /\ ~FlagSet(FLAG_Z)

----------------------------------------------------------------------------
(* BRK and RTI.                                                             *)

(* C39: with the stack page in RAM, a BRK at address p followed by an RTI   *)
(* executed as the first instruction at the break-vector target leaves      *)
(* PC = (p + 2) mod 65536, SP as it was before the BRK, and P as it was     *)
(* before the BRK: the I flag BRK set is undone, B is clear and U is set.   *)
BrkRtiRoundTrip ==
    [][ (/\ StepOf(\h40)
         /\ last.op = "step" /\ last.val = \h00 /\ last.exc = NoExc
         /\ steps > MonitorSteps
         /\ StackInRam /\ \A a \in \h100..\h1FF : NoHook(a)) =>
          /\ PC' = (last.PC + 2) % \h10000
          /\ SP' = last.SP
          /\ P' = last.P
          /\ BitAnd(P', FLAG_I) = BitAnd(last.P, FLAG_I)
          /\ BitAnd(P', FLAG_B) = 0
          /\ BitAnd(P', FLAG_U) # 0
      ]_vars

(* BRK at 0xFFFF with SP = 0x01 and I clear, then RTI at 0x0034: PC is      *)
(* 0x0001, SP 0x01 again and I clear again                                  *)
BrkRtiRoundTripWitness ==
    /\ last.op = "step" /\ last.val = \h40 /\ last.PC = \h0034
    /\ prev.op = "step" /\ prev.val = \h00 /\ prev.PC = \hFFFF /\ prev.SP = \h01
    /\ steps = MonitorSteps + 2
    /\ PC = \h0001 /\ SP = \h01 /\ P = prev.P
    /\ BitAnd(last.P, FLAG_I) # 0 /\ BitAnd(P, FLAG_I) = 0

----------------------------------------------------------------------------
(* The I/O addresses and the memory array.                                  *)

(* C40: as A1E.run() wires the hooks, with rom_start above 0xD012, a store  *)
(* to 0xD012 calls the video sink exactly once, with the stored byte, and   *)
(* leaves the byte of the array at 0xD012; a read of 0xD012 returns that    *)
(* byte and emits nothing; a store to 0xD010 or 0xD011 changes the array    *)
(* only, and the reads of 0xD010 and 0xD011 return what the keyboard latch  *)
(* holds, whatever the array holds.                                         *)
IoIsolation ==
    [][ (_io_handlers = Wired /\ _rom_start > VIDEO_ADDR) =>
          /\ StoresTo(VIDEO_ADDR) =>
                /\ io_log' = Append(io_log, <<"write_char", A>>)
                /\ UNCHANGED data
          /\ LoadsFrom(VIDEO_ADDR) =>
                /\ A' = Peek(data, VIDEO_ADDR)
                /\ UNCHANGED <<stdout, _col, io_log, data>>
          /\ \A a \in {KBD_DATA, KBD_CTRL} :
                StoresTo(a) =>
                   /\ Peek(data', a) = A
                   /\ SameBytesOutside({a})
                   /\ UNCHANGED <<_key_pressed, _kbdcr, stdout, _col, io_log>>
          /\ LoadsFrom(KBD_DATA) =>
                /\ A' = BitOr(_key_pressed, \h80)
                /\ UNCHANGED data
          /\ LoadsFrom(KBD_CTRL) =>
                /\ A' = _kbdcr
                /\ UNCHANGED data
      ]_vars

(* 0xC1 was stored to the display and 0x77, read back from 0xD012, to the   *)
(* keyboard addresses; with a key latched, the read of 0xD010 returned the  *)
(* key and not the 0x77 of the array                                        *)
IoIsolationWitness ==
    /\ last.op = "step" /\ last.val = \hAD /\ last.PC = \hF00E
    /\ Peek(data, VIDEO_ADDR) = \h77
    /\ Peek(data, KBD_DATA) = \h77 /\ Peek(data, KBD_CTRL) = \h77
    /\ A = \hC1
    /\ io_log = << <<"write_char", \hC1>>, <<"read_char", 0>> >>


====
